---- MODULE Spec2Model ----
(***************************************************************************)
(* A model of bbfs: a read-only fs.FS over the Bitbucket Server REST API.  *)
(*                                                                         *)
(*   - the request builders of the commands (bbclient/server),             *)
(*   - SecretString,                                                       *)
(*   - FilesIterator, the pagination iterator,                             *)
(*   - bbFS.Open and bbFS.Sub (fs.go),                                     *)
(*   - syncedCache, the RWMutex-guarded response cache (cache.go).         *)
(*                                                                         *)
(* Go strings are TLA+ strings.  A path is the sequence of its             *)
(* "/"-separated elements: "" is <<"">>, "." is <<".">>, "a/b" is          *)
(* <<"a","b">>, "/a" is <<"","a">> and "a/" is <<"a","">>.                 *)
(***************************************************************************)
EXTENDS Integers, Sequences, FiniteSets, TLC

VARIABLES
    \* ---- FilesIterator, driven directly (TestIterator) ----
    itPages,     \* the pages the server holds for the listed directory
    callerCmd,   \* the *GetFilesCommand the caller passed (shared by pointer)
    iter,        \* the FilesIterator, or NoIter before GetFilesIterator
    itRet,       \* the values Next has returned so far, in order
    itReqs,      \* the requests the client has issued, in order
    itPanic,     \* TRUE once a call has panicked
    itRanges,    \* per finished "range it.Files()": how many entries it yielded
    \* ---- bbFS ----
    handle,      \* the filesystem handle the program holds (NewFS, then Sub)
    fsLast,      \* the last bbFS call: its inputs, requests and result
    \* ---- syncedCache ----
    store,       \* the entries of the underlying (otter) cache
    readerCount, \* clearMutex: readers that hold or wait for the lock
    pending,     \* clearMutex: a writer has announced itself (readerCount < 0 in Go)
    readerWait,  \* clearMutex: departing readers the writer still waits for
    writer,      \* clearMutex: the thread that holds the writers' mutex w, 0 for none
    readerSem,   \* clearMutex: wake-ups released to blocked readers
    writerSem,   \* clearMutex: wake-ups released to the blocked writer
    pc,          \* per thread: where it is in its call
    call,        \* per thread: the frame of the call it runs (none when idle)
    lastInner,   \* the last operation the underlying cache performed
    clearLog,    \* which keys were set before and since the last Clear
    \* ---- request builders ----
    bCmd,        \* the command handed to newRequestWithContext
    bOut,        \* what it built, or NotBuilt
    \* ---- SecretString ----
    secA, secB,  \* two credentials
    strA, strB,  \* their String() renderings, or NotRendered
    \* ---- Client operations ----
    opCmd,       \* the command the program executes on its client
    opRuns,      \* the executions so far: each one's error, requests and result
    \* ---- bbFile ----
    file,        \* the node the program holds: a *bbFile that Open returned
    fPages,      \* the pages the server holds for the directory of the node
    streams,     \* per raw content stream opened: how often it was closed, the
                 \* content not yet read, the read error it has met
    fLast,       \* the last call on the node: its inputs and what it returned
    fGot,        \* the entries the ReadDir calls have returned so far, in order
    fReqs,       \* the requests sent on behalf of the node and their fate, in order
    fCalls       \* the number of calls made on the node

itVars == <<itPages, callerCmd, iter, itRet, itReqs, itPanic, itRanges>>
fsVars == <<handle, fsLast>>
cacheVars == <<store, readerCount, pending, readerWait, writer, readerSem, writerSem,
               pc, call, lastInner, clearLog>>
buildVars == <<bCmd, bOut>>
secVars == <<secA, secB, strA, strB>>
opVars == <<opCmd, opRuns>>
fileVars == <<file, fPages, streams, fLast, fGot, fReqs, fCalls>>
vars == <<itVars, fsVars, cacheVars, buildVars, secVars, opVars, fileVars>>
notIt == <<fsVars, cacheVars, buildVars, secVars, opVars, fileVars>>
notFS == <<itVars, cacheVars, buildVars, secVars, opVars, fileVars>>
notCache == <<itVars, fsVars, buildVars, secVars, opVars, fileVars>>
notBuild == <<itVars, fsVars, cacheVars, secVars, opVars, fileVars>>
notSec == <<itVars, fsVars, cacheVars, buildVars, opVars, fileVars>>
notOp == <<itVars, fsVars, cacheVars, buildVars, secVars, fileVars>>
notFile == <<itVars, fsVars, cacheVars, buildVars, secVars, opVars>>

(***************************************************************************)
(* Bounds of the model.                                                    *)
(***************************************************************************)
\* pages of a listing driven through the iterator
MaxPages == 3
\* entries in one page
MaxPageLen == 2
\* Next calls on one iterator
MaxCalls == 8
\* pages of a listing served to one bbFS call
MaxFSPages == 2
\* elements of a handle's root prefix
MaxDepth == 2
\* threads calling into one cache
NumThreads == 2
\* calls on one node
MaxFileCalls == 3
\* the largest count asked of ReadDir
MaxReadDir == 2
\* bytes of a file's content
MaxContent == 2
\* the longest buffer handed to Read
MaxBuf == 2
\* executions of one command on one client
MaxRuns == 2
\* the largest Start and Limit handed to a request builder
MaxStart == 11
\* the longest credential
MaxSecretLen == 3

Nil == "nil"
EOF == "EOF"
ErrTransport == "transport error"
ErrBadStatus == "bad status"
\* the error of http.Client.Do when the server closes the connection without an
\* answer: a *url.Error around io.EOF
ErrClosed == "Get: EOF"

\* errors.Is(err, io.EOF): io.EOF itself, or an error that wraps it
ErrorsIsEOF(err) == err \in {EOF, ErrClosed}
ErrProjectKeyMissing == "command not valid: ProjectKey is missing"
ErrRepoSlugMissing == "command not valid: RepoSlug is missing"
ErrFilePathMissing == "command not valid: FilePath is missing"
ErrNotExist == "file does not exist"
ErrInvalid == "invalid argument"
\* &fs.PathError{Op: "open", Path: name, Err: fs.ErrInvalid}
ErrOpenInvalid == "open: invalid argument"
\* a response body that breaks off, and one that is read after its Close
ErrBodyBroken == "unexpected EOF"
ErrBodyClosed == "http: read on closed response body"

\* Body(v), with v evaluated once
With(v, Body(_)) == CHOOSE out \in {Body(x) : x \in {v}} : TRUE

(***************************************************************************)
(* strconv.Itoa and its inverse, as the server reads the start parameter.  *)
(***************************************************************************)
Digits == <<"0", "1", "2", "3", "4", "5", "6", "7", "8", "9">>

RECURSIVE ItoaNat(_)
ItoaNat(n) == IF n < 10 THEN Digits[n + 1] ELSE ItoaNat(n \div 10) \o Digits[(n % 10) + 1]

Itoa(n) == IF n < 0 THEN "-" \o ItoaNat(-n) ELSE ItoaNat(n)

(***************************************************************************)
(* url.Values: a map from parameter name to value.  A nil map can be read  *)
(* but not written: Add on it panics ("assignment to entry in nil map").   *)
(***************************************************************************)
EmptyValues == [nil |-> FALSE, panic |-> FALSE, m |-> <<>>]
NilValues == [nil |-> TRUE, panic |-> FALSE, m |-> <<>>]

\* url.Values.Add
ValuesAdd(v, name, value) ==
    IF v.panic \/ v.nil THEN [v EXCEPT !.panic = TRUE]
    ELSE [v EXCEPT !.m = [k \in (DOMAIN v.m) \cup {name} |-> IF k = name THEN value ELSE v.m[k]]]

\* addValue: the parameter is added when its value is not the empty string
addValue(v, name, value) ==
    IF value # "" THEN ValuesAdd(v, name, value) ELSE v

\* url.Values.Encode: the parameters sorted by key
KeyOrder == <<"at", "limit", "orderBy", "start">>

Encode(v) ==
    LET present == SelectSeq(KeyOrder, LAMBDA k : k \in DOMAIN v.m)
    IN  [i \in 1..Len(present) |-> <<present[i], v.m[present[i]]>>]

\* the request a builder returns: its URL, or a panic while building it
Request(kind, project, repo, rest, v) ==
    [panic |-> v.panic, kind |-> kind, project |-> project, repo |-> repo,
     rest |-> rest, query |-> IF v.panic THEN <<>> ELSE Encode(v)]

HasParam(req, name) == \E i \in 1..Len(req.query) : req.query[i][1] = name

ParamValue(req, name) ==
    LET i == CHOOSE j \in 1..Len(req.query) : req.query[j][1] = name
    IN  req.query[i][2]

(***************************************************************************)
(* The request builders of the commands.                                   *)
(***************************************************************************)
\* GetFilesCommand.newRequestWithContext
GetFilesRequest(c) ==
    Request("browse", c.ProjectKey, c.RepoSlug, c.FilePath,
            addValue(addValue(addValue(EmptyValues, "at", c.At),
                              "start", Itoa(c.Start)),
                     "limit", Itoa(c.Limit)))

\* GetCommitsCommand.newRequestWithContext
GetCommitsRequest(c) ==
    Request("commits", c.ProjectKey, c.RepoSlug, <<c.CommitID>>,
            addValue(addValue(addValue(EmptyValues, "orderBy", c.OrderBy),
                              "start", Itoa(c.Start)),
                     "limit", Itoa(c.Limit)))

\* GetTagsCommand.newRequestWithContext: vals is declared, never made
GetTagsRequest(c) ==
    Request("tags", c.ProjectKey, c.RepoSlug, <<"">>,
            addValue(addValue(addValue(NilValues, "orderBy", c.OrderBy),
                              "start", Itoa(c.Start)),
                     "limit", Itoa(c.Limit)))

\* OpenRawFileCommand.newRequestWithContext
OpenRawFileRequest(c) ==
    Request("raw", c.ProjectKey, c.RepoSlug, c.FilePath,
            addValue(EmptyValues, "at", c.At))

\* GetFileContentCommand.newRequestWithContext
GetFileContentRequest(c) ==
    Request("raw", c.ProjectKey, c.RepoSlug, c.FilePath,
            IF c.At # "" THEN ValuesAdd(EmptyValues, "at", c.At) ELSE EmptyValues)

(***************************************************************************)
(* The server side of a directory listing.  A listing is a sequence of     *)
(* pages; the server's cursor for page i is i-1, so the first page is      *)
(* served for start=0 (or no start parameter) and page i announces         *)
(* nextPageStart = i.  Only the final page is flagged isLastPage.          *)
(***************************************************************************)
FileEntry(n) == [Name |-> n, Type |-> "FILE", Size |-> 7]
DirEntry(n) == [Name |-> n, Type |-> "DIRECTORY", Size |-> 0]
\* what Next returns for "no entry": a nil *FileInfo
NilEntry == [Name |-> "", Type |-> "nil", Size |-> 0]

SeqsUpTo(S, n) == UNION {[1..k -> S] : k \in 0..n}

\* the cursor a request asks for: Atoi of its start parameter, 0 without one
RequestedPage(req, pages) ==
    IF HasParam(req, "start")
    THEN {i \in 1..Len(pages) : Itoa(i - 1) = ParamValue(req, "start")}
    ELSE {1}

\* the body the server answers a browse request with
ServerBody(req, pages) ==
    LET i == CHOOSE j \in RequestedPage(req, pages) : TRUE
    IN  [values |-> pages[i], start |-> i - 1, nextPageStart |-> i,
         isLastPage |-> (i = Len(pages)), size |-> Len(pages[i])]

\* GetFilesCommand.ParseResponse
ParseFilesResponse(body) ==
    [Files |-> body.values, Start |-> body.start, NextStart |-> body.nextPageStart,
     LastPage |-> body.isLastPage, Size |-> body.size]

NoResponse == [Files |-> <<>>, Start |-> 0, NextStart |-> 0, LastPage |-> FALSE, Size |-> 0]

\* GetFilesCommand.Validate
ValidateFiles(c) ==
    IF c.ProjectKey = "" THEN ErrProjectKeyMissing
    ELSE IF c.RepoSlug = "" THEN ErrRepoSlugMissing
    ELSE Nil

\* Client.GetFiles: net is what the network does with the request ("ok",
\* "transport" for a failed round trip, "closed" for a connection the server
\* closes without an answer); a cursor the server does not have is answered
\* with a bad status
GetFiles(c, pages, net) ==
    IF ValidateFiles(c) # Nil
    THEN [err |-> ValidateFiles(c), res |-> NoResponse, reqs |-> <<>>]
    ELSE With(GetFilesRequest(c), LAMBDA req :
         IF net # "ok"
         THEN [err |-> IF net = "closed" THEN ErrClosed ELSE ErrTransport,
               res |-> NoResponse, reqs |-> <<req>>]
         ELSE IF RequestedPage(req, pages) = {} \/ pages = <<>>
         THEN [err |-> ErrBadStatus, res |-> NoResponse, reqs |-> <<req>>]
         ELSE [err |-> Nil, res |-> ParseFilesResponse(ServerBody(req, pages)),
               reqs |-> <<req>>])

(***************************************************************************)
(* FilesIterator.  lastCommand points at the caller's command, so the      *)
(* command is passed in and handed back next to the iterator.              *)
(***************************************************************************)
NoIter == [made |-> FALSE, lastResult |-> NoResponse, index |-> 0, lastError |-> Nil]

\* Client.GetFilesIterator
NewFilesIterator(c, pages, net) ==
    With(GetFiles(c, pages, net), LAMBDA got :
      [err |-> got.err, reqs |-> got.reqs,
       it |-> IF got.err # Nil THEN NoIter
              ELSE [made |-> TRUE, lastResult |-> got.res, index |-> 0, lastError |-> Nil]])

\* a loadPage that asks for the page after the one that is due
loadPageSkipsOne(it, c, pages, net) ==
    With([c EXCEPT !.Start = it.lastResult.NextStart + 1], LAMBDA c2 :
      With(GetFiles(c2, pages, net), LAMBDA got :
        [err |-> got.err, reqs |-> got.reqs, cmd |-> c2,
         it |-> IF got.err # Nil THEN it ELSE [it EXCEPT !.lastResult = got.res]]))

\* FilesIterator.loadPage
loadPage(it, c, pages, net) ==
    With([c EXCEPT !.Start = it.lastResult.NextStart], LAMBDA c2 :
      With(GetFiles(c2, pages, net), LAMBDA got :
        [err |-> got.err, reqs |-> got.reqs, cmd |-> c2,
         it |-> IF got.err # Nil THEN it ELSE [it EXCEPT !.lastResult = got.res]]))

\* the tail of Next: res := i.lastResult.Files[i.index]; i.index++
\* (an index past the page is a runtime panic)
TakeEntry(it, c, reqs) ==
    IF it.index >= Len(it.lastResult.Files)
    THEN [it |-> it, cmd |-> c, ret |-> NilEntry, reqs |-> reqs, panic |-> TRUE]
    ELSE [it |-> [it EXCEPT !.index = it.index + 1], cmd |-> c,
          ret |-> it.lastResult.Files[it.index + 1], reqs |-> reqs, panic |-> FALSE]

\* a Next that forgets a failed fetch and asks for the page again
IterNextRetry(it, c, pages, net) ==
    IF it.lastError = EOF
    THEN [it |-> it, cmd |-> c, ret |-> NilEntry, reqs |-> <<>>, panic |-> FALSE]
    ELSE IF it.index >= Len(it.lastResult.Files)
    THEN IF it.lastResult.LastPage
         THEN [it |-> [it EXCEPT !.lastError = EOF], cmd |-> c, ret |-> NilEntry,
               reqs |-> <<>>, panic |-> FALSE]
         ELSE With(loadPage([it EXCEPT !.lastError = Nil], c, pages, net), LAMBDA lp :
              IF lp.err # Nil
              THEN [it |-> [lp.it EXCEPT !.lastError = lp.err], cmd |-> lp.cmd,
                    ret |-> NilEntry, reqs |-> lp.reqs, panic |-> FALSE]
              ELSE TakeEntry([lp.it EXCEPT !.index = 0], lp.cmd, lp.reqs))
    ELSE TakeEntry(it, c, <<>>)

\* a Next that starts the held page again once it has reached the end
IterNextRestarts(it, c, pages, net) ==
    IF it.lastError = EOF
    THEN TakeEntry([it EXCEPT !.index = 0, !.lastError = Nil], c, <<>>)
    ELSE IF it.lastError # Nil
    THEN [it |-> it, cmd |-> c, ret |-> NilEntry, reqs |-> <<>>, panic |-> FALSE]
    ELSE IF it.index >= Len(it.lastResult.Files)
    THEN IF it.lastResult.LastPage
         THEN [it |-> [it EXCEPT !.lastError = EOF], cmd |-> c, ret |-> NilEntry,
               reqs |-> <<>>, panic |-> FALSE]
         ELSE With(loadPage(it, c, pages, net), LAMBDA lp :
              IF lp.err # Nil
              THEN [it |-> [lp.it EXCEPT !.lastError = lp.err], cmd |-> lp.cmd,
                    ret |-> NilEntry, reqs |-> lp.reqs, panic |-> FALSE]
              ELSE TakeEntry([lp.it EXCEPT !.index = 0], lp.cmd, lp.reqs))
    ELSE TakeEntry(it, c, <<>>)

\* FilesIterator.Next
IterNext(it, c, pages, net) ==
    IF it.lastError # Nil
    THEN [it |-> it, cmd |-> c, ret |-> NilEntry, reqs |-> <<>>, panic |-> FALSE]
    ELSE IF it.index >= Len(it.lastResult.Files)
    THEN IF it.lastResult.LastPage
         THEN [it |-> [it EXCEPT !.lastError = EOF], cmd |-> c, ret |-> NilEntry,
               reqs |-> <<>>, panic |-> FALSE]
         ELSE With(loadPage(it, c, pages, net), LAMBDA lp :
              IF lp.err # Nil
              THEN [it |-> [lp.it EXCEPT !.lastError = lp.err], cmd |-> lp.cmd,
                    ret |-> NilEntry, reqs |-> lp.reqs, panic |-> FALSE]
              ELSE TakeEntry([lp.it EXCEPT !.index = 0], lp.cmd, lp.reqs))
    ELSE TakeEntry(it, c, <<>>)

\* FilesIterator.Err
IterErr(it) == it.lastError

\* the loop of Files, "for f := i.Next(); f != nil; f = i.Next()", with a
\* consumer that takes every entry: rets are the values Next returned, the
\* closing nil included; the failAt-th request of the loop fails
RECURSIVE FilesFrom(_, _, _)
FilesFrom(st, pages, failAt) ==
    IF st.done THEN st
    ELSE With(IterNext(st.it, st.cmd, pages,
                       IF failAt = Len(st.reqs) + 1 THEN "transport" ELSE "ok"), LAMBDA n :
           FilesFrom([it |-> n.it, cmd |-> n.cmd, reqs |-> st.reqs \o n.reqs,
                      rets |-> Append(st.rets, n.ret), panic |-> n.panic,
                      done |-> n.panic \/ n.ret = NilEntry], pages, failAt))

\* FilesIterator.Files, ranged over to its end
Files(it, c, pages, failAt) ==
    FilesFrom([it |-> it, cmd |-> c, reqs |-> <<>>, rets |-> <<>>, panic |-> FALSE,
               done |-> FALSE], pages, failAt)

(***************************************************************************)
(* The iterator driven directly, as TestIterator drives it: one            *)
(* GetFilesIterator, then Next again and again.                            *)
(***************************************************************************)
ItEntries == {FileEntry("a"), DirEntry("b")}
ItPage == SeqsUpTo(ItEntries, MaxPageLen)
ItListings == {l \in SeqsUpTo(ItPage, MaxPages) : Len(l) >= 1}
ItCommands ==
    [FilePath : {<<"server">>}, ProjectKey : {"", "P"}, RepoSlug : {"R"},
     At : {""}, Start : {0}, Limit : {1, MaxPageLen}]

ItIdle ==
    /\ itPages = <<>>
    /\ callerCmd = [FilePath |-> <<"">>, ProjectKey |-> "", RepoSlug |-> "",
                    At |-> "", Start |-> 0, Limit |-> 0]
    /\ iter = NoIter
    /\ itRet = <<>>
    /\ itReqs = <<>>
    /\ itPanic = FALSE
    /\ itRanges = <<>>

ItInit ==
    /\ itPages \in ItListings
    /\ callerCmd \in ItCommands
    /\ iter = NoIter
    /\ itRet = <<>>
    /\ itReqs = <<>>
    /\ itPanic = FALSE
    /\ itRanges = <<>>

\* c.GetFilesIterator(ctx, cmd)
GetFilesIterator(net) ==
    /\ ~iter.made
    /\ itReqs = <<>>
    /\ ValidateFiles(callerCmd) = Nil \/ net = "ok"
    /\ \E new \in {NewFilesIterator(callerCmd, itPages, net)} :
       /\ iter' = new.it
       /\ itReqs' = itReqs \o new.reqs
    /\ UNCHANGED <<itPages, callerCmd, itRet, itPanic, itRanges>>
    /\ UNCHANGED notIt

\* iter.Next()
Next(net) ==
    /\ iter.made
    /\ ~itPanic
    /\ Len(itRet) < MaxCalls
    /\ \E n \in {IterNext(iter, callerCmd, itPages, net)} :
       /\ net = "ok" \/ n.reqs # <<>>
       /\ iter' = n.it
       /\ callerCmd' = n.cmd
       /\ itRet' = Append(itRet, n.ret)
       /\ itReqs' = itReqs \o n.reqs
       /\ itPanic' = n.panic
    /\ UNCHANGED <<itPages, itRanges>>
    /\ UNCHANGED notIt

\* for f := range iter.Files() { }, run to its end: the failAt-th request of
\* the loop fails (0: none does)
RangeFiles(failAt) ==
    /\ iter.made
    /\ ~itPanic
    /\ Len(itRet) < MaxCalls
    /\ \E r \in {Files(iter, callerCmd, itPages, failAt)} :
       /\ failAt <= Len(r.reqs)
       /\ iter' = r.it
       /\ callerCmd' = r.cmd
       /\ itRet' = itRet \o r.rets
       /\ itReqs' = itReqs \o r.reqs
       /\ itPanic' = r.panic
       /\ itRanges' = IF r.panic THEN itRanges ELSE Append(itRanges, Len(r.rets) - 1)
    /\ UNCHANGED itPages
    /\ UNCHANGED notIt

ItNext ==
    \/ \E net \in {"ok", "transport"} : GetFilesIterator(net)
    \/ \E net \in {"ok", "transport"} : Next(net)
    \/ \E failAt \in 0..MaxPages : RangeFiles(failAt)

(***************************************************************************)
(* The request builders applied to commands drawn from bounded sets.       *)
(***************************************************************************)
BuildKinds == {"files", "tags", "commits", "rawfile", "filecontent"}
BuildCommands ==
    [kind : BuildKinds, FilePath : {<<"">>, <<"a", "b">>}, ProjectKey : {"P"},
     RepoSlug : {"R"}, At : {"", "main"}, OrderBy : {"", "ALPHABETICAL"},
     CommitID : {""}, Start : {0, 1, MaxStart}, Limit : {0, 1, MaxStart}]

NotBuilt == [built |-> FALSE, req |-> Request("", "", "", <<"">>, EmptyValues)]

BuildIdle ==
    /\ bCmd = [kind |-> "", FilePath |-> <<"">>, ProjectKey |-> "", RepoSlug |-> "",
               At |-> "", OrderBy |-> "", CommitID |-> "", Start |-> 0, Limit |-> 0]
    /\ bOut = NotBuilt

BuildInit ==
    /\ bCmd \in BuildCommands
    /\ bOut = NotBuilt

BuildFiles ==
    /\ bCmd.kind = "files" /\ ~bOut.built
    /\ bOut' = [built |-> TRUE, req |-> GetFilesRequest(bCmd)]
    /\ UNCHANGED bCmd
    /\ UNCHANGED notBuild

BuildTags ==
    /\ bCmd.kind = "tags" /\ ~bOut.built
    /\ bOut' = [built |-> TRUE, req |-> GetTagsRequest(bCmd)]
    /\ UNCHANGED bCmd
    /\ UNCHANGED notBuild

BuildCommits ==
    /\ bCmd.kind = "commits" /\ ~bOut.built
    /\ bOut' = [built |-> TRUE, req |-> GetCommitsRequest(bCmd)]
    /\ UNCHANGED bCmd
    /\ UNCHANGED notBuild

BuildRawFile ==
    /\ bCmd.kind = "rawfile" /\ ~bOut.built
    /\ bOut' = [built |-> TRUE, req |-> OpenRawFileRequest(bCmd)]
    /\ UNCHANGED bCmd
    /\ UNCHANGED notBuild

BuildFileContent ==
    /\ bCmd.kind = "filecontent" /\ ~bOut.built
    /\ bOut' = [built |-> TRUE, req |-> GetFileContentRequest(bCmd)]
    /\ UNCHANGED bCmd
    /\ UNCHANGED notBuild

BuildNext == BuildFiles \/ BuildTags \/ BuildCommits \/ BuildRawFile \/ BuildFileContent

(***************************************************************************)
(* The operations of Client: validate the command, build its request,      *)
(* authorise and send it, require a 2xx status, parse the body.  net is    *)
(* what the network does with the request: "ok", "transport" for a failed  *)
(* round trip, "status" for an answer outside 2xx.                         *)
(***************************************************************************)
\* GetTagsCommand.Validate
ValidateTags(c) ==
    IF c.ProjectKey = "" THEN ErrProjectKeyMissing
    ELSE IF c.RepoSlug = "" THEN ErrRepoSlugMissing
    ELSE Nil

\* OpenRawFileCommand.Validate
ValidateRawFile(c) ==
    IF c.ProjectKey = "" THEN ErrProjectKeyMissing
    ELSE IF c.RepoSlug = "" THEN ErrRepoSlugMissing
    ELSE IF c.FilePath = <<"">> THEN ErrFilePathMissing
    ELSE Nil

\* GetFileContentCommand.Validate
ValidateFileContent(c) ==
    IF c.ProjectKey = "" THEN ErrProjectKeyMissing
    ELSE IF c.RepoSlug = "" THEN ErrRepoSlugMissing
    ELSE IF c.FilePath = <<"">> THEN ErrFilePathMissing
    ELSE Nil

\* GetTagsCommand.ParseResponse: one Tag per element of values
ParseTagsResponse(body) ==
    [i \in 1..Len(body) |-> [Name |-> body[i].displayId, CommitID |-> body[i].latestCommit]]

\* GetFileContentCommand.ParseResponse: every line followed by a newline
RECURSIVE ParseFileContent(_)
ParseFileContent(lines) ==
    IF lines = <<>> THEN "" ELSE Head(lines) \o "\n" \o ParseFileContent(Tail(lines))

\* what an operation hands back: its error, the requests it sent, whether it
\* panicked, and its value in the field of its type
OpResult(op, err, reqs) ==
    [op |-> op, err |-> err, reqs |-> reqs, panic |-> FALSE, tags |-> <<>>,
     files |-> NoResponse, made |-> FALSE, content |-> ""]

\* http.DefaultClient.Do and checkStatus
Transport(op, req, net) ==
    OpResult(op, IF net = "transport" THEN ErrTransport ELSE ErrBadStatus, <<req>>)

\* Client.GetTags returns ([]string, error): its command is the
\* GetTagsCommand declared next to it (ProjectKey, RepoSlug, OrderBy), whose
\* builder makes url.Values{} only for a non-empty OrderBy
ClientTagsRequest(c) ==
    Request("tags", c.ProjectKey, c.RepoSlug, <<"">>,
            IF c.OrderBy # "" THEN ValuesAdd(EmptyValues, "orderBy", c.OrderBy)
            ELSE EmptyValues)

\* the ParseResponse of that command: the displayId of every element of values
ClientParseTags(body) == [i \in 1..Len(body) |-> body[i].displayId]

\* Client.GetTags
ClientGetTags(c, served, net) ==
    IF ValidateTags(c) # Nil THEN OpResult("GetTags", ValidateTags(c), <<>>)
    ELSE With(ClientTagsRequest(c), LAMBDA req :
         IF net # "ok" THEN Transport("GetTags", req, net)
         ELSE [OpResult("GetTags", Nil, <<req>>) EXCEPT !.tags = ClientParseTags(served)])

\* Client.GetFileContent
ClientGetFileContent(c, lines, net) ==
    IF ValidateFileContent(c) # Nil
    THEN OpResult("GetFileContent", ValidateFileContent(c), <<>>)
    ELSE With(GetFileContentRequest(c), LAMBDA req :
         IF net # "ok" THEN Transport("GetFileContent", req, net)
         ELSE [OpResult("GetFileContent", Nil, <<req>>)
                 EXCEPT !.content = ParseFileContent(lines)])

\* an OpenRawFile that looks at the command after the round trip
ClientOpenRawFileUnvalidated(c, lines, net) ==
    With(OpenRawFileRequest(c), LAMBDA req :
      IF net # "ok" THEN Transport("OpenRawFile", req, net)
      ELSE IF ValidateRawFile(c) # Nil
      THEN OpResult("OpenRawFile", ValidateRawFile(c), <<req>>)
      ELSE [OpResult("OpenRawFile", Nil, <<req>>) EXCEPT !.made = TRUE])

\* Client.OpenRawFile: the value is the body of the response, unread
ClientOpenRawFile(c, lines, net) ==
    IF ValidateRawFile(c) # Nil THEN OpResult("OpenRawFile", ValidateRawFile(c), <<>>)
    ELSE With(OpenRawFileRequest(c), LAMBDA req :
         IF net # "ok" THEN Transport("OpenRawFile", req, net)
         ELSE [OpResult("OpenRawFile", Nil, <<req>>) EXCEPT !.made = TRUE])

\* Client.GetFiles, as a result of the same shape
ClientGetFiles(c, pages, net) ==
    With(GetFiles(c, pages, IF net = "status" THEN "ok" ELSE net), LAMBDA got :
      IF got.reqs # <<>> /\ net = "status" THEN Transport("GetFiles", got.reqs[1], net)
      ELSE [OpResult("GetFiles", got.err, got.reqs) EXCEPT !.files = got.res])

\* Client.GetFilesIterator, as a result of the same shape
ClientGetFilesIterator(c, pages, net) ==
    With(ClientGetFiles(c, pages, net), LAMBDA got :
      [got EXCEPT !.op = "GetFilesIterator", !.made = (got.err = Nil)])

(***************************************************************************)
(* A program that executes one command on its client, up to MaxRuns times. *)
(***************************************************************************)
OpKinds == {"GetFileContent", "GetTags", "GetFiles", "GetFilesIterator", "OpenRawFile"}
OpCommands ==
    [kind : OpKinds, FilePath : {<<"">>, <<"a">>}, ProjectKey : {"", "P"},
     RepoSlug : {"", "R"}, At : {""}, OrderBy : {"", "ALPHABETICAL"},
     Start : {0}, Limit : {0}]
\* what the server holds: the tags of the repository, the lines of the file,
\* the pages of the directory
ServedTags ==
    SeqsUpTo({[id |-> "refs/tags/v1.0", displayId |-> "v1.0", latestCommit |-> "abc123"],
              [id |-> "refs/tags/v2", displayId |-> "v2", latestCommit |-> "def456"]}, 2)
ServedLines == SeqsUpTo({"x", "y"}, 2)
ServedPages == {<<<<FileEntry("a")>>>>, <<<<FileEntry("a")>>, <<DirEntry("b")>>>>}
Nets == {"ok", "transport", "status"}

OpIdle ==
    /\ opCmd = [kind |-> "", FilePath |-> <<"">>, ProjectKey |-> "", RepoSlug |-> "",
                At |-> "", OrderBy |-> "", Start |-> 0, Limit |-> 0]
    /\ opRuns = <<>>

OpInit ==
    /\ opCmd \in OpCommands
    /\ opRuns = <<>>

\* the program may call again after a call that returned
CanRun(kind) ==
    /\ opCmd.kind = kind
    /\ Len(opRuns) < MaxRuns
    /\ \A i \in 1..Len(opRuns) : ~opRuns[i].panic

ExecGetFileContent ==
    /\ CanRun("GetFileContent")
    /\ \E lines \in ServedLines, net \in Nets :
         opRuns' = Append(opRuns, ClientGetFileContent(opCmd, lines, net))
    /\ UNCHANGED opCmd
    /\ UNCHANGED notOp

ExecGetTags ==
    /\ CanRun("GetTags")
    /\ \E served \in ServedTags, net \in Nets :
         opRuns' = Append(opRuns, ClientGetTags(opCmd, served, net))
    /\ UNCHANGED opCmd
    /\ UNCHANGED notOp

ExecGetFiles ==
    /\ CanRun("GetFiles")
    /\ \E pages \in ServedPages, net \in Nets :
         opRuns' = Append(opRuns, ClientGetFiles(opCmd, pages, net))
    /\ UNCHANGED opCmd
    /\ UNCHANGED notOp

ExecGetFilesIterator ==
    /\ CanRun("GetFilesIterator")
    /\ \E pages \in ServedPages, net \in Nets :
         opRuns' = Append(opRuns, ClientGetFilesIterator(opCmd, pages, net))
    /\ UNCHANGED opCmd
    /\ UNCHANGED notOp

ExecOpenRawFile ==
    /\ CanRun("OpenRawFile")
    /\ \E lines \in ServedLines, net \in Nets :
         opRuns' = Append(opRuns, ClientOpenRawFile(opCmd, lines, net))
    /\ UNCHANGED opCmd
    /\ UNCHANGED notOp

OpNext ==
    ExecGetFileContent \/ ExecGetTags \/ ExecGetFiles \/ ExecGetFilesIterator
        \/ ExecOpenRawFile

(***************************************************************************)
(* SecretString.                                                           *)
(***************************************************************************)
\* strings.Repeat
RECURSIVE Repeat(_, _)
Repeat(str, count) == IF count <= 0 THEN "" ELSE str \o Repeat(str, count - 1)

\* SecretString.String
SecretStringString(sec) == Repeat("*", Len(sec))

\* SecretString.Secret
SecretStringSecret(sec) == sec

RECURSIVE StringsUpTo(_, _)
StringsUpTo(chars, n) ==
    IF n = 0 THEN {""}
    ELSE LET shorter == StringsUpTo(chars, n - 1)
         IN  shorter \cup {str \o c : str \in shorter, c \in chars}

Secrets == StringsUpTo({"k", "*"}, MaxSecretLen)
NotRendered == [done |-> FALSE, text |-> ""]

SecIdle == secA = "" /\ secB = "" /\ strA = NotRendered /\ strB = NotRendered

SecInit == secA \in Secrets /\ secB \in Secrets /\ strA = NotRendered /\ strB = NotRendered

\* fmt of the first credential
RenderA ==
    /\ ~strA.done
    /\ strA' = [done |-> TRUE, text |-> SecretStringString(secA)]
    /\ UNCHANGED <<secA, secB, strB>>
    /\ UNCHANGED notSec

\* fmt of the second credential
RenderB ==
    /\ ~strB.done
    /\ strB' = [done |-> TRUE, text |-> SecretStringString(secB)]
    /\ UNCHANGED <<secA, secB, strA>>
    /\ UNCHANGED notSec

SecNext == RenderA \/ RenderB

(***************************************************************************)
(* path/filepath and io/fs on paths given by their elements.               *)
(***************************************************************************)
EmptyPath == <<"">>
DotPath == <<".">>

\* the lexical pass of filepath.Clean over the elements of a path
RECURSIVE CleanElems(_, _, _)
CleanElems(elems, out, rooted) ==
    IF elems = <<>> THEN out
    ELSE LET e == Head(elems)
             rest == Tail(elems)
         IN  IF e = "" \/ e = "." THEN CleanElems(rest, out, rooted)
             ELSE IF e = ".."
             THEN IF out # <<>> /\ out[Len(out)] # ".."
                  THEN CleanElems(rest, SubSeq(out, 1, Len(out) - 1), rooted)
                  ELSE IF rooted THEN CleanElems(rest, out, rooted)
                  ELSE CleanElems(rest, Append(out, e), rooted)
             ELSE CleanElems(rest, Append(out, e), rooted)

\* filepath.Clean
Clean(p) ==
    LET rooted == Len(p) > 1 /\ p[1] = ""
        out == CleanElems(p, <<>>, rooted)
    IN  IF rooted THEN <<"">> \o (IF out = <<>> THEN <<"">> ELSE out)
        ELSE IF out = <<>> THEN DotPath ELSE out

\* filepath.Join of two elements: empty elements are ignored, the rest is
\* joined with "/" and cleaned
Join(a, b) ==
    IF a # EmptyPath THEN Clean(a \o b)
    ELSE IF b # EmptyPath THEN Clean(b)
    ELSE EmptyPath

\* filepath.Dir: all but the last element, cleaned
Dir(p) ==
    IF Len(p) = 1 THEN Clean(EmptyPath)
    ELSE Clean(Append(SubSeq(p, 1, Len(p) - 1), ""))

RECURSIVE StripTrailingSlashes(_)
StripTrailingSlashes(p) ==
    IF Len(p) > 1 /\ p[Len(p)] = "" THEN StripTrailingSlashes(SubSeq(p, 1, Len(p) - 1))
    ELSE p

\* filepath.Base: the last element, a string
Base(p) ==
    IF p = EmptyPath THEN "."
    ELSE LET q == StripTrailingSlashes(p)
         IN  IF q = EmptyPath THEN "/" ELSE q[Len(q)]

\* fs.ValidPath
ValidPath(name) ==
    \/ name = DotPath
    \/ \A i \in 1..Len(name) : name[i] \notin {"", ".", ".."}

(***************************************************************************)
(* bbFS.  A call is served a listing by the server (none: the directory    *)
(* is unknown to it) and failAt numbers the request of the call whose      *)
(* round trip fails (0: none does).                                        *)
(***************************************************************************)
ModeDir == "d"
ModeFile == "-"

\* isModeDir
isModeDir(t) == IF t = "DIRECTORY" THEN ModeDir ELSE ModeFile

NoNode == [exists |-> FALSE, fullPath |-> EmptyPath, name |-> "", mode |-> ModeFile, size |-> 0]
NoHandle == [exists |-> FALSE, root |-> EmptyPath, client |-> 0, projectKey |-> "",
             repoSlug |-> "", accessKey |-> "", at |-> ""]

\* bbFileInfo.IsDir
IsDir(node) == node.mode = ModeDir

NetAt(failAt, n) == IF failAt = n THEN "transport" ELSE "ok"

\* a turn that ends the loop at the first entry named base
ScanStepStopsAtMatch(st, pages, failAt, base) ==
    With(IterNext(st.it, st.cmd, pages, NetAt(failAt, Len(st.reqs) + 1)), LAMBDA n :
      [it |-> n.it, cmd |-> n.cmd, reqs |-> st.reqs \o n.reqs, panic |-> n.panic,
       done |-> n.panic \/ n.ret = NilEntry \/ n.ret.Name = base,
       found |-> IF ~n.panic /\ n.ret # NilEntry /\ n.ret.Name = base THEN n.ret ELSE st.found])

\* a turn that keeps the first entry named base
ScanStepKeepsFirst(st, pages, failAt, base) ==
    With(IterNext(st.it, st.cmd, pages, NetAt(failAt, Len(st.reqs) + 1)), LAMBDA n :
      [it |-> n.it, cmd |-> n.cmd, reqs |-> st.reqs \o n.reqs, panic |-> n.panic,
       done |-> n.panic \/ n.ret = NilEntry,
       found |-> IF ~n.panic /\ n.ret # NilEntry /\ n.ret.Name = base /\ st.found = NilEntry
                 THEN n.ret ELSE st.found])

\* one turn of "for f := range iter.Files()": Next is called, and an entry it
\* returns is kept when its name is base (so the last one that matches is kept)
ScanStep(st, pages, failAt, base) ==
    With(IterNext(st.it, st.cmd, pages, NetAt(failAt, Len(st.reqs) + 1)), LAMBDA n :
      [it |-> n.it, cmd |-> n.cmd, reqs |-> st.reqs \o n.reqs, panic |-> n.panic,
       done |-> n.panic \/ n.ret = NilEntry,
       found |-> IF ~n.panic /\ n.ret # NilEntry /\ n.ret.Name = base THEN n.ret ELSE st.found])

\* the loop, until Next returns nil (or panics)
RECURSIVE ScanFrom(_, _, _, _)
ScanFrom(st, pages, failAt, base) ==
    IF st.done THEN st
    ELSE With(ScanStep(st, pages, failAt, base), LAMBDA nx : ScanFrom(nx, pages, failAt, base))

\* var found *server.FileInfo; for f := range iter.Files() { ... }
ScanFiles(it, c, pages, base, failAt, reqs) ==
    ScanFrom([it |-> it, cmd |-> c, reqs |-> reqs, panic |-> FALSE, done |-> FALSE,
              found |-> NilEntry], pages, failAt, base)

OpenResult(err, node, reqs, panic) == [err |-> err, node |-> node, reqs |-> reqs, panic |-> panic]

\* fullPath := filepath.Join(b.root, name)
OpenFullPath(b, name) == Join(b.root, name)

\* the listing command of Open (a parent of "." is sent as "")
OpenCommand(b, parent) ==
    [FilePath |-> IF parent = DotPath THEN EmptyPath ELSE parent, ProjectKey |-> b.projectKey,
     RepoSlug |-> b.repoSlug, At |-> b.at, Start |-> 0, Limit |-> 1000]

\* bbFS.Open, from "Check if the file exists in the directory" on
OpenLookup(b, fullPath, served, failAt) ==
    With(OpenCommand(b, Dir(fullPath)), LAMBDA cmd :
      With(NewFilesIterator(cmd, served, NetAt(failAt, 1)), LAMBDA new :
        IF new.err # Nil THEN OpenResult(new.err, NoNode, new.reqs, FALSE)
        ELSE With(ScanFiles(new.it, cmd, served, Base(fullPath), failAt, new.reqs), LAMBDA scan :
          IF scan.panic THEN OpenResult(Nil, NoNode, scan.reqs, TRUE)
          ELSE IF scan.found = NilEntry THEN OpenResult(ErrNotExist, NoNode, scan.reqs, FALSE)
          ELSE OpenResult(Nil, [exists |-> TRUE, fullPath |-> fullPath,
                                name |-> scan.found.Name, mode |-> isModeDir(scan.found.Type),
                                size |-> scan.found.Size],
                          scan.reqs, FALSE))))

\* the synthetic root directory node
RootNode == [exists |-> TRUE, fullPath |-> DotPath, name |-> ".", mode |-> ModeDir, size |-> 0]

\* an Open that joins whatever name it is given to the root
OpenAnyName(b, name, served, failAt) ==
    IF OpenFullPath(b, name) = DotPath THEN OpenResult(Nil, RootNode, <<>>, FALSE)
    ELSE OpenLookup(b, OpenFullPath(b, name), served, failAt)

\* an Open that looks the name up as it is given, the root left out
OpenUnderNoRoot(b, name, served, failAt) ==
    IF ~ValidPath(name) THEN OpenResult(ErrOpenInvalid, NoNode, <<>>, FALSE)
    ELSE IF Clean(name) = DotPath THEN OpenResult(Nil, RootNode, <<>>, FALSE)
    ELSE OpenLookup(b, Clean(name), served, failAt)

\* bbFS.Open
Open(b, name, served, failAt) ==
    IF ~ValidPath(name) THEN OpenResult(ErrOpenInvalid, NoNode, <<>>, FALSE)
    ELSE IF OpenFullPath(b, name) = DotPath THEN OpenResult(Nil, RootNode, <<>>, FALSE)
    ELSE OpenLookup(b, OpenFullPath(b, name), served, failAt)

SubResult(err, fsys, opened) == [err |-> err, fsys |-> fsys, opened |-> opened]

\* Sub with the IsDir test left out
SubNoDirTest(b, dir, served, failAt) ==
    With(Open(b, dir, served, failAt), LAMBDA f :
      IF f.panic \/ f.err # Nil THEN SubResult(f.err, NoHandle, f)
      ELSE SubResult(Nil, [b EXCEPT !.root = Join(b.root, <<f.node.name>>)], f))

\* bbFS.Sub (when Open panics so does Sub: opened.panic says so)
Sub(b, dir, served, failAt) ==
    With(Open(b, dir, served, failAt), LAMBDA f :
      IF f.panic \/ f.err # Nil THEN SubResult(f.err, NoHandle, f)
      ELSE IF ~IsDir(f.node) THEN SubResult(ErrInvalid, NoHandle, f)
      ELSE SubResult(Nil, [exists |-> TRUE, root |-> Join(b.root, <<f.node.name>>),
                           client |-> b.client, projectKey |-> b.projectKey,
                           repoSlug |-> b.repoSlug, accessKey |-> b.accessKey, at |-> b.at], f))

\* NewFS
NewFS(cfg) ==
    [exists |-> TRUE, root |-> cfg.Root, client |-> 1, projectKey |-> cfg.ProjectKey,
     repoSlug |-> cfg.RepositorySlug, accessKey |-> cfg.AccessKey, at |-> cfg.At]

(***************************************************************************)
(* The program around bbFS: it makes one filesystem, then calls Open and   *)
(* Sub on the handle it holds, keeping the handle a successful Sub         *)
(* returns.                                                                *)
(***************************************************************************)
FSEntries == {DirEntry("b"), FileEntry("b")}
\* a served page holds at most two entries
FSPages == SeqsUpTo(FSEntries, 2)
\* <<>> is the answer for a directory the server does not know
FSListings == SeqsUpTo(FSPages, MaxFSPages)
FSNames == {DotPath, <<"a">>, <<"b">>, <<"a", "b">>, EmptyPath, <<"..", "b">>,
            <<"", "b">>, <<"b", "">>, <<"b", ".">>}
FSConfigs ==
    [Host : {"host"}, ProjectKey : {"P"}, RepositorySlug : {"R"}, Root : {EmptyPath, <<"a">>},
     AccessKey : {"key"}, At : {"", "v1"}]

NoCall ==
    [op |-> "none", h |-> NoHandle, name |-> EmptyPath, served |-> <<>>, failAt |-> 0,
     res |-> OpenResult(Nil, NoNode, <<>>, FALSE), err |-> Nil, fsys |-> NoHandle]

FSIdle == handle = NoHandle /\ fsLast = NoCall

FSInit == (\E cfg \in FSConfigs : handle = NewFS(cfg)) /\ fsLast = NoCall

FailChoices(served) == 0..(IF Len(served) = 0 THEN 1 ELSE Len(served))

\* f, err := fsys.Open(name)
DoOpen ==
    /\ fsLast.op = "none"
    /\ \E name \in FSNames, served \in FSListings :
         \E failAt \in FailChoices(served) :
           \E r \in {Open(handle, name, served, failAt)} :
             fsLast' = [op |-> "Open", h |-> handle, name |-> name, served |-> served,
                        failAt |-> failAt, res |-> r, err |-> r.err, fsys |-> NoHandle]
    /\ UNCHANGED handle
    /\ UNCHANGED notFS

\* sub, err := fsys.Sub(dir); the program goes on with sub
DoSub ==
    /\ fsLast.op = "none"
    /\ \E dir \in FSNames, served \in FSListings :
         \E failAt \in FailChoices(served) :
           \E r \in {Sub(handle, dir, served, failAt)} :
             /\ r.fsys.exists => Len(r.fsys.root) <= MaxDepth
             /\ fsLast' = [op |-> "Sub", h |-> handle, name |-> dir, served |-> served,
                           failAt |-> failAt, res |-> r.opened, err |-> r.err,
                           fsys |-> r.fsys]
             /\ handle' = IF r.fsys.exists THEN r.fsys ELSE handle
    /\ UNCHANGED notFS

\* the program is done with the result of its last call
Return ==
    /\ fsLast.op \in {"Open", "Sub"}
    /\ ~fsLast.res.panic
    /\ fsLast' = NoCall
    /\ UNCHANGED handle
    /\ UNCHANGED notFS

FSNext == DoOpen \/ DoSub \/ Return

(***************************************************************************)
(* bbFile, the node Open returns.  data is the raw content stream the node *)
(* holds (0 for nil, else the number of the stream), dirIter the iterator  *)
(* over its listing with the command that iterator points at.              *)
(***************************************************************************)
\* the bbFile Open returns for a node of the handle b
NewFile(b, node) ==
    [bfs |-> b, fullPath |-> node.fullPath, name |-> node.name, mode |-> node.mode,
     size |-> node.size, data |-> 0, dirIter |-> NoIter,
     dirCmd |-> OpenCommand(b, EmptyPath), lastErr |-> Nil]

NoFile == NewFile(NoHandle, NoNode)

\* the bbFile ReadDir makes of a listed entry
EntryFile(f, e) ==
    [exists |-> TRUE, fullPath |-> Join(f.fullPath, <<e.Name>>), name |-> e.Name,
     mode |-> isModeDir(e.Type), size |-> e.Size]

\* what ReadDir returns: the entries (nilRes when the slice is nil), the error
ReadDirResult(f, res, nilRes, err, reqs, panic) ==
    [f |-> f, res |-> res, nilRes |-> nilRes, err |-> err, reqs |-> reqs, panic |-> panic]

\* the listing command of ReadDir (the root "." is sent as "")
ReadDirCommand(f) ==
    [FilePath |-> IF f.fullPath = DotPath THEN EmptyPath ELSE f.fullPath,
     ProjectKey |-> f.bfs.projectKey, RepoSlug |-> f.bfs.repoSlug, At |-> f.bfs.at,
     Start |-> 0, Limit |-> 1000]

\* what the network does with the n-th request of a ReadDir call whose
\* failAt-th request fails the way "how" says
NetHow(failAt, how, n) == IF failAt = n THEN how ELSE "ok"

\* the loop of ReadDir: "for { ... }" from "Check if done" on
RECURSIVE ReadDirLoop(_, _, _, _, _, _, _)
ReadDirLoop(f, n, res, reqs, pages, failAt, how) ==
    IF n > 0 /\ Len(res) = n THEN ReadDirResult(f, res, FALSE, Nil, reqs, FALSE)
    ELSE With(IterNext(f.dirIter, f.dirCmd, pages, NetHow(failAt, how, Len(reqs) + 1)),
              LAMBDA nx :
      With([f EXCEPT !.dirIter = nx.it, !.dirCmd = nx.cmd], LAMBDA f2 :
        IF nx.panic THEN ReadDirResult(f2, res, FALSE, Nil, reqs \o nx.reqs, TRUE)
        ELSE IF nx.ret = NilEntry
        THEN IF ~ErrorsIsEOF(IterErr(nx.it))
             THEN ReadDirResult([f2 EXCEPT !.lastErr = IterErr(nx.it)], res, FALSE,
                                IterErr(nx.it), reqs \o nx.reqs, FALSE)
             ELSE ReadDirResult(IF Len(res) = 0 THEN [f2 EXCEPT !.lastErr = EOF] ELSE f2,
                                res, FALSE, Nil, reqs \o nx.reqs, FALSE)
        ELSE ReadDirLoop(f2, n, Append(res, EntryFile(f, nx.ret)), reqs \o nx.reqs,
                         pages, failAt, how)))

\* bbFile.ReadDir
ReadDir(f, n, pages, failAt, how) ==
    IF f.lastErr # Nil THEN ReadDirResult(f, <<>>, TRUE, f.lastErr, <<>>, FALSE)
    ELSE IF ~f.dirIter.made
    THEN With(NewFilesIterator(ReadDirCommand(f), pages, NetHow(failAt, how, 1)), LAMBDA new :
           IF new.err # Nil THEN ReadDirResult(f, <<>>, TRUE, new.err, new.reqs, FALSE)
           ELSE ReadDirLoop([f EXCEPT !.dirIter = new.it, !.dirCmd = ReadDirCommand(f)],
                            n, <<>>, new.reqs, pages, failAt, how))
    ELSE ReadDirLoop(f, n, <<>>, <<>>, pages, failAt, how)

\* what Read and Close return: the node, the streams, the error, the
\* requests sent, the stream the call read from or closed (0 for none), the
\* bytes a Read put into the buffer
FileResult(f, st, err, reqs, used, bytes) ==
    [f |-> f, streams |-> st, err |-> err, reqs |-> reqs, used |-> used, bytes |-> bytes]

\* the body of a raw-file response: not closed, nothing read, no error met
NewStream(content) == [closed |-> 0, rest |-> content, err |-> Nil]

\* what the body answers to a Read: "data" for the bytes that fit the buffer,
\* "end" for the same with io.EOF when they are the last ones, "broken" for a
\* connection that fails under the Read
StreamAnswers == {"data", "end", "broken"}

Min(a, b) == IF a < b THEN a ELSE b

\* f.data.Read(b) on a buffer of buf bytes: the stream after it, the bytes and
\* the error it returns.  A body that has been closed or that has failed keeps
\* returning its error, a body read to its end returns (0, io.EOF)
StreamRead(str, buf, ans) ==
    IF str.closed > 0 THEN [str |-> str, bytes |-> <<>>, err |-> ErrBodyClosed]
    ELSE IF str.err # Nil THEN [str |-> str, bytes |-> <<>>, err |-> str.err]
    ELSE IF str.rest = <<>> THEN [str |-> str, bytes |-> <<>>, err |-> EOF]
    ELSE IF ans = "broken"
    THEN [str |-> [str EXCEPT !.err = ErrBodyBroken], bytes |-> <<>>, err |-> ErrBodyBroken]
    ELSE With(Min(buf, Len(str.rest)), LAMBDA n :
           [str |-> [str EXCEPT !.rest = SubSeq(str.rest, n + 1, Len(str.rest))],
            bytes |-> SubSeq(str.rest, 1, n),
            err |-> IF ans = "end" /\ n = Len(str.rest) THEN EOF ELSE Nil])

\* return f.data.Read(b)
ReadData(f, st, reqs, buf, ans) ==
    With(StreamRead(st[f.data], buf, ans), LAMBDA r :
      FileResult(f, [st EXCEPT ![f.data] = r.str], r.err, reqs, f.data, r.bytes))

\* the raw-file command of Read
ReadCommand(f) ==
    [FilePath |-> f.fullPath, ProjectKey |-> f.bfs.projectKey,
     RepoSlug |-> f.bfs.repoSlug, At |-> f.bfs.at]

\* bbFile.Read: content is what the server holds for the file, net what the
\* network does with the raw-file request, buf the length of the buffer
Read(f, st, content, net, buf, ans) ==
    IF f.data # 0 THEN ReadData(f, st, <<>>, buf, ans)
    ELSE With(ClientOpenRawFile(ReadCommand(f), content, net), LAMBDA r :
      IF r.err # Nil THEN FileResult(f, st, r.err, r.reqs, 0, <<>>)
      ELSE ReadData([f EXCEPT !.data = Len(st) + 1], Append(st, NewStream(content)),
                    r.reqs, buf, ans))

\* a Close that keeps holding the stream it closed
CloseKeepsStream(f, st) ==
    IF f.data = 0 THEN FileResult(f, st, Nil, <<>>, 0, <<>>)
    ELSE FileResult(f, [st EXCEPT ![f.data].closed = @ + 1], Nil, <<>>, f.data, <<>>)

\* bbFile.Close
Close(f, st) ==
    IF f.data = 0 THEN FileResult(f, st, Nil, <<>>, 0, <<>>)
    ELSE FileResult([f EXCEPT !.data = 0], [st EXCEPT ![f.data].closed = @ + 1], Nil,
                    <<>>, f.data, <<>>)

(***************************************************************************)
(* The program around bbFile: it holds the node of one Open and calls      *)
(* ReadDir on it if it is a directory, Read if it is a file, and Close.    *)
(***************************************************************************)
\* a served page: none, one or both of a directory "b" and a file "c"
FilePages == {<<>>, <<DirEntry("b")>>, <<FileEntry("c")>>, <<DirEntry("b"), FileEntry("c")>>}
\* <<>> is the answer for a directory the server does not know
FileListings == SeqsUpTo(FilePages, MaxFSPages)
\* the content the server holds for a file
FileContents == SeqsUpTo({"x"}, MaxContent)
\* the nodes Open returns: the root of the handle (the root node for ".", the
\* entry found under the name Base(fullPath) otherwise), and an entry "b"
FileNodes(b) ==
    {[RootNode EXCEPT !.fullPath = Clean(b.root),
                      !.name = IF Clean(b.root) = DotPath THEN "." ELSE Base(Clean(b.root))],
     [exists |-> TRUE, fullPath |-> Join(b.root, <<"b">>), name |-> "b",
      mode |-> ModeDir, size |-> 0],
     [exists |-> TRUE, fullPath |-> Join(b.root, <<"b">>), name |-> "b",
      mode |-> ModeFile, size |-> 7]}
ReadDirCounts == (-1)..MaxReadDir

NoFileCall ==
    [op |-> "none", n |-> 0, failAt |-> 0, before |-> NoFile, res |-> <<>>,
     nilRes |-> FALSE, err |-> Nil, reqs |-> <<>>, panic |-> FALSE, used |-> 0,
     bytes |-> <<>>]

FileIdle ==
    /\ file = NoFile
    /\ fPages = <<>>
    /\ streams = <<>>
    /\ fLast = NoFileCall
    /\ fGot = <<>>
    /\ fReqs = <<>>
    /\ fCalls = 0

FileInit ==
    /\ \E cfg \in FSConfigs : \E node \in FileNodes(NewFS(cfg)) :
         file = NewFile(NewFS(cfg), node)
    /\ fPages \in FileListings
    /\ IsDir(file) \/ fPages = <<>>
    /\ streams = <<>>
    /\ fLast = NoFileCall
    /\ fGot = <<>>
    /\ fReqs = <<>>
    /\ fCalls = 0

\* the program calls on while no call has panicked
CanCall ==
    /\ file.bfs.exists
    /\ ~fLast.panic
    /\ fCalls < MaxFileCalls

\* the ways a request of ReadDir fails
Failures == {"transport", "closed"}

\* entries, err := f.ReadDir(n)
DoReadDir ==
    /\ CanCall
    /\ IsDir(file)
    /\ \E n \in ReadDirCounts, failAt \in 0..MaxFSPages, how \in Failures :
         \E r \in {ReadDir(file, n, fPages, failAt, how)} :
           /\ failAt <= Len(r.reqs)
           /\ failAt = 0 => how = "transport"
           /\ file' = r.f
           /\ fLast' = [op |-> "ReadDir", n |-> n, failAt |-> failAt, before |-> file,
                        res |-> r.res, nilRes |-> r.nilRes, err |-> r.err,
                        reqs |-> r.reqs, panic |-> r.panic, used |-> 0, bytes |-> <<>>]
           /\ fGot' = fGot \o r.res
           /\ fReqs' = fReqs \o [i \in 1..Len(r.reqs) |->
                                    [req |-> r.reqs[i], net |-> NetHow(failAt, how, i)]]
    /\ fCalls' = fCalls + 1
    /\ UNCHANGED <<fPages, streams>>
    /\ UNCHANGED notFile

\* n, err := f.Read(buf)
DoRead ==
    /\ CanCall
    /\ ~IsDir(file)
    /\ \E content \in FileContents, net \in Nets, buf \in 1..MaxBuf, ans \in StreamAnswers :
         \E r \in {Read(file, streams, content, net, buf, ans)} :
           /\ net = "ok" \/ r.reqs # <<>>
           /\ file' = r.f
           /\ streams' = r.streams
           /\ fLast' = [op |-> "Read", n |-> 0, failAt |-> IF net = "ok" THEN 0 ELSE 1,
                        before |-> file, res |-> <<>>, nilRes |-> FALSE, err |-> r.err,
                        reqs |-> r.reqs, panic |-> FALSE, used |-> r.used,
                        bytes |-> r.bytes]
           /\ fReqs' = fReqs \o [i \in 1..Len(r.reqs) |-> [req |-> r.reqs[i], net |-> net]]
    /\ fCalls' = fCalls + 1
    /\ UNCHANGED <<fPages, fGot>>
    /\ UNCHANGED notFile

\* err := f.Close()
DoClose ==
    /\ CanCall
    /\ \E r \in {Close(file, streams)} :
         /\ file' = r.f
         /\ streams' = r.streams
         /\ fLast' = [op |-> "Close", n |-> 0, failAt |-> 0, before |-> file,
                      res |-> <<>>, nilRes |-> FALSE, err |-> r.err, reqs |-> r.reqs,
                      panic |-> FALSE, used |-> r.used, bytes |-> <<>>]
    /\ fCalls' = fCalls + 1
    /\ UNCHANGED <<fPages, fGot, fReqs>>
    /\ UNCHANGED notFile

FileNext == DoReadDir \/ DoRead \/ DoClose

(***************************************************************************)
(* The two programs in one: handles are made with NewFS and Sub, a node is *)
(* opened on a handle and kept, and the node is read and closed.           *)
(***************************************************************************)
\* the program keeps the node of f, err := fsys.Open(name) and goes on with f;
\* of the call it remembers the handle and the name
KeepFile ==
    /\ fsLast.op = "Open"
    /\ ~fsLast.res.panic /\ fsLast.res.err = Nil /\ fsLast.res.node.exists
    /\ ~file.bfs.exists
    /\ file' = NewFile(fsLast.h, fsLast.res.node)
    /\ fPages' \in FileListings
    /\ IsDir(file') \/ fPages' = <<>>
    /\ fsLast' = [NoCall EXCEPT !.op = "Kept", !.h = fsLast.h, !.name = fsLast.name]
    /\ UNCHANGED <<handle, streams, fLast, fGot, fReqs, fCalls>>
    /\ UNCHANGED <<itVars, cacheVars, buildVars, secVars, opVars>>

HandleNext == DoOpen \/ DoSub \/ Return \/ KeepFile \/ DoReadDir \/ DoRead \/ DoClose

(***************************************************************************)
(* syncedCache: the otter cache behind clearMutex, a sync.RWMutex.         *)
(* The underlying cache is a map from key to body; an entry leaves it when *)
(* its TTL runs out (Expire) or on Clear.  Its capacity of 10_000 entries  *)
(* is never reached by the keys of the model.                              *)
(***************************************************************************)
Threads == 1..NumThreads
Keys == {"url1", "url2"}
Bodies == {"body1", "body2"}
NoBody == ""

EmptyStore == [k \in Keys |-> NoBody]

\* a Set that drops the entry
CacheSetDropped(st, key, value) == st

\* b.cache.Set(key, value)
CacheSet(st, key, value) == [st EXCEPT ![key] = value]

\* b.cache.Get(key)
CacheGet(st, key) == [value |-> st[key], found |-> st[key] # NoBody]

\* a Clear that leaves the entries in place
CacheClearNothing(st) == st

\* b.cache.Clear()
CacheClear(st) == EmptyStore

NoCacheCall == [op |-> "none", key |-> "", value |-> NoBody, found |-> FALSE, r |-> 0]
\* the last operation of the underlying cache; for a Get also what it returned,
\* the operation before it, and whether the key was gone (set before the last
\* Clear, not since)
NoInner ==
    [op |-> "none", key |-> "", value |-> NoBody, found |-> FALSE,
     prevOp |-> "none", prevKey |-> "", prevValue |-> NoBody, gone |-> FALSE]
NoClear == [cleared |-> FALSE, before |-> {}, since |-> {}]

CacheIdle ==
    /\ store = EmptyStore
    /\ readerCount = 0 /\ pending = FALSE /\ readerWait = 0 /\ writer = 0
    /\ readerSem = 0 /\ writerSem = 0
    /\ pc = <<>>
    /\ call = <<>>
    /\ lastInner = NoInner
    /\ clearLog = NoClear

CacheInit ==
    /\ store = EmptyStore
    /\ readerCount = 0 /\ pending = FALSE /\ readerWait = 0 /\ writer = 0
    /\ readerSem = 0 /\ writerSem = 0
    /\ pc = [t \in Threads |-> "idle"]
    /\ call = [t \in Threads |-> NoCacheCall]
    /\ lastInner = NoInner
    /\ clearLog = NoClear

mutexVars == <<readerCount, pending, readerWait, writer, readerSem, writerSem>>
innerVars == <<store, lastInner, clearLog>>

\* a thread calls Get(key)
CallGet(t, key) ==
    /\ pc[t] = "idle"
    /\ pc' = [pc EXCEPT ![t] = "RLock"]
    /\ call' = [call EXCEPT ![t] = [NoCacheCall EXCEPT !.op = "Get", !.key = key]]
    /\ UNCHANGED <<mutexVars, innerVars>>
    /\ UNCHANGED notCache

\* a thread calls Set(key, value)
CallSet(t, key, value) ==
    /\ pc[t] = "idle"
    /\ pc' = [pc EXCEPT ![t] = "RLock"]
    /\ call' = [call EXCEPT ![t] = [NoCacheCall EXCEPT !.op = "Set", !.key = key, !.value = value]]
    /\ UNCHANGED <<mutexVars, innerVars>>
    /\ UNCHANGED notCache

\* a thread calls Clear()
CallClear(t) ==
    /\ pc[t] = "idle"
    /\ pc' = [pc EXCEPT ![t] = "Lock"]
    /\ call' = [call EXCEPT ![t] = [NoCacheCall EXCEPT !.op = "Clear"]]
    /\ UNCHANGED <<mutexVars, innerVars>>
    /\ UNCHANGED notCache

\* RWMutex.RLock: count the reader; it sleeps when a writer is pending
RLock(t) ==
    /\ pc[t] = "RLock"
    /\ readerCount' = readerCount + 1
    /\ pc' = [pc EXCEPT ![t] = IF pending THEN "readerSem" ELSE "in"]
    /\ UNCHANGED <<pending, readerWait, writer, readerSem, writerSem, call, innerVars>>
    /\ UNCHANGED notCache

\* RWMutex.RLock: the sleeping reader is woken
RLockWake(t) ==
    /\ pc[t] = "readerSem"
    /\ readerSem > 0
    /\ readerSem' = readerSem - 1
    /\ pc' = [pc EXCEPT ![t] = "in"]
    /\ UNCHANGED <<readerCount, pending, readerWait, writer, writerSem, call, innerVars>>
    /\ UNCHANGED notCache

\* Get: return b.cache.Get(key)
GetInner(t) ==
    /\ pc[t] = "in" /\ call[t].op = "Get"
    /\ \E got \in {CacheGet(store, call[t].key)} :
       /\ call' = [call EXCEPT ![t].value = got.value, ![t].found = got.found]
       /\ lastInner' = [op |-> "Get", key |-> call[t].key, value |-> got.value,
                        found |-> got.found, prevOp |-> lastInner.op,
                        prevKey |-> lastInner.key, prevValue |-> lastInner.value,
                        gone |-> /\ clearLog.cleared
                                 /\ call[t].key \in clearLog.before \ clearLog.since]
    /\ pc' = [pc EXCEPT ![t] = "RUnlock"]
    /\ UNCHANGED <<mutexVars, store, clearLog>>
    /\ UNCHANGED notCache

\* Set: return b.cache.Set(key, value)
SetInner(t) ==
    /\ pc[t] = "in" /\ call[t].op = "Set"
    /\ store' = CacheSet(store, call[t].key, call[t].value)
    /\ call' = [call EXCEPT ![t].found = TRUE]
    /\ lastInner' = [NoInner EXCEPT !.op = "Set", !.key = call[t].key, !.value = call[t].value]
    /\ clearLog' = [clearLog EXCEPT !.since = @ \cup {call[t].key}]
    /\ pc' = [pc EXCEPT ![t] = "RUnlock"]
    /\ UNCHANGED mutexVars
    /\ UNCHANGED notCache

\* RWMutex.RUnlock (deferred): r := rw.readerCount.Add(-1); with a writer
\* pending (r < 0) the reader goes on to rUnlockSlow, otherwise the call returns
RUnlock(t) ==
    /\ pc[t] = "RUnlock"
    /\ readerCount' = readerCount - 1
    /\ pc' = [pc EXCEPT ![t] = IF pending THEN "RUnlock.b" ELSE "idle"]
    /\ call' = IF pending THEN call ELSE [call EXCEPT ![t] = NoCacheCall]
    /\ UNCHANGED <<pending, readerWait, writer, readerSem, writerSem, innerVars>>
    /\ UNCHANGED notCache

\* RWMutex.rUnlockSlow: rw.readerWait.Add(-1); the reader that brings it to 0
\* goes on to wake the writer
rUnlockSlow(t) ==
    /\ pc[t] = "RUnlock.b"
    /\ readerWait' = readerWait - 1
    /\ pc' = [pc EXCEPT ![t] = IF readerWait - 1 = 0 THEN "RUnlock.c" ELSE "idle"]
    /\ call' = IF readerWait - 1 = 0 THEN call ELSE [call EXCEPT ![t] = NoCacheCall]
    /\ UNCHANGED <<readerCount, pending, writer, readerSem, writerSem, innerVars>>
    /\ UNCHANGED notCache

\* RWMutex.rUnlockSlow: runtime_Semrelease(&rw.writerSem), and the call returns
rUnlockRelease(t) ==
    /\ pc[t] = "RUnlock.c"
    /\ writerSem' = writerSem + 1
    /\ pc' = [pc EXCEPT ![t] = "idle"]
    /\ call' = [call EXCEPT ![t] = NoCacheCall]
    /\ UNCHANGED <<readerCount, pending, readerWait, writer, readerSem, innerVars>>
    /\ UNCHANGED notCache

\* a Clear that takes the lock shared, as Get and Set do
LockShared(t) ==
    /\ pc[t] = "Lock"
    /\ readerCount' = readerCount + 1
    /\ pc' = [pc EXCEPT ![t] = IF pending THEN "writerSem" ELSE "win"]
    /\ UNCHANGED <<pending, readerWait, writer, readerSem, writerSem, call, innerVars>>
    /\ UNCHANGED notCache

\* RWMutex.Lock: rw.w.Lock(), against other writers
Lock(t) ==
    /\ pc[t] = "Lock"
    /\ writer = 0
    /\ writer' = t
    /\ pc' = [pc EXCEPT ![t] = "announce"]
    /\ UNCHANGED <<readerCount, pending, readerWait, readerSem, writerSem, call, innerVars>>
    /\ UNCHANGED notCache

\* RWMutex.Lock: announce the writer to the readers, r := the active readers
LockAnnounce(t) ==
    /\ pc[t] = "announce"
    /\ pending' = TRUE
    /\ call' = [call EXCEPT ![t].r = readerCount]
    /\ pc' = [pc EXCEPT ![t] = IF readerCount # 0 THEN "readerWait" ELSE "win"]
    /\ UNCHANGED <<readerCount, readerWait, writer, readerSem, writerSem, innerVars>>
    /\ UNCHANGED notCache

\* RWMutex.Lock: readerWait += r; the writer sleeps unless they have all left
LockWait(t) ==
    /\ pc[t] = "readerWait"
    /\ readerWait' = readerWait + call[t].r
    /\ pc' = [pc EXCEPT ![t] = IF readerWait + call[t].r # 0 THEN "writerSem" ELSE "win"]
    /\ UNCHANGED <<readerCount, pending, writer, readerSem, writerSem, call, innerVars>>
    /\ UNCHANGED notCache

\* RWMutex.Lock: the sleeping writer is woken
LockWake(t) ==
    /\ pc[t] = "writerSem"
    /\ writerSem > 0
    /\ writerSem' = writerSem - 1
    /\ pc' = [pc EXCEPT ![t] = "win"]
    /\ UNCHANGED <<readerCount, pending, readerWait, writer, readerSem, call, innerVars>>
    /\ UNCHANGED notCache

\* Clear: b.cache.Clear()
ClearInner(t) ==
    /\ pc[t] = "win"
    /\ store' = CacheClear(store)
    /\ lastInner' = [NoInner EXCEPT !.op = "Clear"]
    /\ clearLog' = [cleared |-> TRUE, before |-> clearLog.before \cup clearLog.since, since |-> {}]
    /\ pc' = [pc EXCEPT ![t] = "Unlock"]
    /\ UNCHANGED <<mutexVars, call>>
    /\ UNCHANGED notCache

\* RWMutex.Unlock (deferred): withdraw the announcement, wake the readers
Unlock(t) ==
    /\ pc[t] = "Unlock"
    /\ pending' = FALSE
    /\ readerSem' = readerSem + readerCount
    /\ pc' = [pc EXCEPT ![t] = "wUnlock"]
    /\ UNCHANGED <<readerCount, readerWait, writer, writerSem, call, innerVars>>
    /\ UNCHANGED notCache

\* RWMutex.Unlock: rw.w.Unlock(), and Clear returns
UnlockW(t) ==
    /\ pc[t] = "wUnlock"
    /\ writer' = 0
    /\ pc' = [pc EXCEPT ![t] = "idle"]
    /\ call' = [call EXCEPT ![t] = NoCacheCall]
    /\ UNCHANGED <<readerCount, pending, readerWait, readerSem, writerSem, innerVars>>
    /\ UNCHANGED notCache

\* WithTTL(time.Hour): an hour after it was set an entry is gone
Expire(key) ==
    /\ store[key] # NoBody
    /\ store' = [store EXCEPT ![key] = NoBody]
    /\ lastInner' = [NoInner EXCEPT !.op = "Expire", !.key = key]
    /\ UNCHANGED <<mutexVars, pc, call, clearLog>>
    /\ UNCHANGED notCache

ThreadNext(t) ==
    \/ \E key \in Keys : CallGet(t, key)
    \/ \E key \in Keys, value \in Bodies : CallSet(t, key, value)
    \/ CallClear(t)
    \/ RLock(t) \/ RLockWake(t) \/ GetInner(t) \/ SetInner(t)
    \/ RUnlock(t) \/ rUnlockSlow(t) \/ rUnlockRelease(t)
    \/ Lock(t) \/ LockAnnounce(t) \/ LockWait(t) \/ LockWake(t)
    \/ ClearInner(t) \/ Unlock(t) \/ UnlockW(t)

CacheNext ==
    \/ \E t \in Threads : ThreadNext(t)
    \/ \E key \in Keys : Expire(key)


(***************************************************************************)
(* The claims.                                                             *)
(***************************************************************************)
RECURSIVE Flatten(_)
\* the entries of a listing, in the order its pages hold them
Flatten(pages) == IF pages = <<>> THEN <<>> ELSE Head(pages) \o Flatten(Tail(pages))

\* N entries served in several pages of L < N entries, the last page holding
\* the rest
Paged(pages) ==
    /\ Len(pages) >= 2
    /\ Len(pages[1]) >= 1
    /\ \A i \in 1..(Len(pages) - 1) : Len(pages[i]) = Len(pages[1])
    /\ Len(pages[Len(pages)]) \in 1..Len(pages[1])

Nils(n) == [i \in 1..n |-> NilEntry]

\* C1: for a listing of N entries served in several pages (page size L < N)
\* whose fetches all succeed, the calls of Next return the N entries, each
\* once, in the order of the pages, then nil on every further call; Err is nil
\* until the first nil and io.EOF from then on; no call panics and each page is
\* requested at most once.
C1_DrainYieldsEveryEntryOnce ==
    (iter.made /\ Paged(itPages) /\ iter.lastError # ErrTransport) =>
        \E all \in {Flatten(itPages)} :
            /\ ~itPanic
            /\ Len(itReqs) <= Len(itPages)
            /\ IF Len(itRet) <= Len(all)
               THEN itRet = SubSeq(all, 1, Len(itRet)) /\ IterErr(iter) = Nil
               ELSE /\ itRet = all \o Nils(Len(itRet) - Len(all))
                    /\ IterErr(iter) = EOF
                    /\ Len(itReqs) = Len(itPages)

\* a listing of three pages has been drained: every entry, then nil
C1_Drained ==
    /\ iter.made /\ Paged(itPages) /\ Len(itPages) >= 3
    /\ itRet = Flatten(itPages) \o <<NilEntry>>
    /\ IterErr(iter) = EOF
    /\ Len(itReqs) = Len(itPages)

\* C2: on every handle, whatever its root, Open(".") returns a directory node
\* and issues no request.
C2_OpenDotIsRootWithoutRequest ==
    (fsLast.op = "Open" /\ fsLast.name = DotPath) =>
        /\ ~fsLast.res.panic
        /\ fsLast.res.err = Nil
        /\ fsLast.res.node.exists /\ IsDir(fsLast.res.node)
        /\ fsLast.res.reqs = <<>>

\* the names of the entries the served listing holds
ServedNames(served) == {Flatten(served)[i].Name : i \in 1..Len(Flatten(served))}

\* C3: when Open(name) looks a valid path up in the listing of its parent,
\* every page of it is fetched, and no entry of it is named
\* base(join(root, name)), Open returns fs.ErrNotExist and no node.
C3_OpenOfMissingNameIsNotExist ==
    ( /\ fsLast.op = "Open"
      /\ ValidPath(fsLast.name)
      /\ OpenFullPath(fsLast.h, fsLast.name) # DotPath
      /\ fsLast.served # <<>>
      /\ fsLast.failAt = 0
      /\ Base(OpenFullPath(fsLast.h, fsLast.name)) \notin ServedNames(fsLast.served) ) =>
        /\ ~fsLast.res.panic
        /\ fsLast.res.err = ErrNotExist
        /\ ~fsLast.res.node.exists

\* the entries of the served listing named as the last element of the path
\* that Sub opened
SubEntries ==
    {e \in {Flatten(fsLast.served)[i] : i \in 1..Len(Flatten(fsLast.served))} :
        e.Name = Base(OpenFullPath(fsLast.h, fsLast.name))}

\* C4: Sub(dir) returns a handle only for a directory: when the Open of dir
\* yields a node of a FILE entry Sub returns fs.ErrInvalid and no handle, when
\* the Open fails Sub returns that error and no handle, and a handle that is
\* returned is one for the root or for a DIRECTORY entry of the listing.
C4_SubOnlyOfDirectories ==
    fsLast.op = "Sub" =>
        /\ fsLast.res.err # Nil => fsLast.err = fsLast.res.err /\ ~fsLast.fsys.exists
        /\ fsLast.res.panic => ~fsLast.fsys.exists
        /\ (fsLast.res.node.exists /\ ~IsDir(fsLast.res.node)) =>
               /\ fsLast.err = ErrInvalid
               /\ ~fsLast.fsys.exists
               /\ \E e \in SubEntries : e.Type = "FILE"
        /\ fsLast.fsys.exists =>
               /\ fsLast.err = Nil /\ fsLast.res.err = Nil
               /\ fsLast.res.node.exists /\ IsDir(fsLast.res.node)
               /\ \/ OpenFullPath(fsLast.h, fsLast.name) = DotPath
                  \/ \E e \in SubEntries : e.Type = "DIRECTORY"

\* Sub of a path that the listing holds as a FILE has failed with fs.ErrInvalid
C4_SubOfFileRefused ==
    /\ fsLast.op = "Sub"
    /\ fsLast.res.err = Nil /\ fsLast.res.node.exists /\ ~IsDir(fsLast.res.node)
    /\ FileEntry("b") \in SubEntries
    /\ fsLast.err = ErrInvalid
    /\ ~fsLast.fsys.exists

\* C5: the handle Sub(dir) returns has the root join(root, dir), also for a
\* dir of several elements, and the client of the handle it was made from.
C5_SubRootIsJoinOfRootAndDir ==
    (fsLast.op = "Sub" /\ fsLast.fsys.exists) =>
        /\ fsLast.fsys.root = Join(fsLast.h.root, fsLast.name)
        /\ fsLast.fsys.client = fsLast.h.client

\* C6: a Get(k) that the cache performs right after a Set(k, v), nothing in
\* between, returns (v, true).
C6_GetAfterSetReturnsValue ==
    (lastInner.op = "Get" /\ lastInner.prevOp = "Set" /\ lastInner.prevKey = lastInner.key) =>
        /\ lastInner.found
        /\ lastInner.value = lastInner.prevValue

\* a Get has returned the second body right after the Set that stored it
C6_GetFoundWhatWasSet ==
    /\ lastInner.op = "Get" /\ lastInner.prevOp = "Set" /\ lastInner.prevKey = lastInner.key
    /\ lastInner.prevValue = "body2"
    /\ lastInner.found /\ lastInner.value = "body2"

\* C7: a Get(k) after a Clear, for a key k that was set before the Clear and
\* not again since, returns found = false, whether or not the entry's TTL
\* had run out.
C7_GetAfterClearFindsNothing ==
    (lastInner.op = "Get" /\ lastInner.gone) => ~lastInner.found

\* a Get of a cleared key has found nothing, while another key set since the
\* Clear is still held
C7_ClearedKeyNotFound ==
    /\ lastInner.op = "Get" /\ lastInner.gone /\ ~lastInner.found
    /\ \E k \in Keys \ {lastInner.key} : k \in clearLog.since /\ store[k] # NoBody

\* the thread holds clearMutex for reading (Get, Set)
ReadHeld(t) == pc[t] \in {"in", "RUnlock"}
\* the thread holds clearMutex for writing (Clear)
WriteHeld(t) == pc[t] \in {"win", "Unlock"}

\* C8: while a Clear holds the lock no Get, Set or other Clear holds it; and
\* under a fair scheduler every call of Get, Set and Clear returns.
C8_ClearIsExclusiveAndCallsReturn ==
    /\ [](\A t \in Threads : WriteHeld(t) =>
              \A u \in Threads \ {t} : ~ReadHeld(u) /\ ~WriteHeld(u))
    /\ \A t \in Threads : (pc[t] # "idle") ~> (pc[t] = "idle")

\* a Get and a Set are inside the underlying cache at the same time
C8_GetAndSetInsideTogether ==
    \E t \in Threads, u \in Threads :
        /\ t # u
        /\ pc[t] = "in" /\ call[t].op = "Get"
        /\ pc[u] = "in" /\ call[u].op = "Set"

\* C9: a built request carries a query parameter only for a field that is a
\* non-empty string or a non-zero integer (and building it does not panic).
C9_OnlyNonZeroFieldsInQuery ==
    bOut.built =>
        /\ ~bOut.req.panic
        /\ HasParam(bOut.req, "start") => bCmd.Start # 0
        /\ HasParam(bOut.req, "limit") => bCmd.Limit # 0
        /\ HasParam(bOut.req, "at") => bCmd.At # ""
        /\ HasParam(bOut.req, "orderBy") => bCmd.OrderBy # ""

\* C10: String() of any two credentials, of whatever lengths, is the same
\* text.
C10_StringIsOneFixedMask ==
    (strA.done /\ strB.done) => strA.text = strB.text

\* a command that lacks a coordinate its operation requires
LacksCoordinate(c) ==
    \/ c.ProjectKey = ""
    \/ c.RepoSlug = ""
    \/ c.kind \in {"GetFileContent", "OpenRawFile"} /\ c.FilePath = <<"">>

MissingFieldErrors == {ErrProjectKeyMissing, ErrRepoSlugMissing, ErrFilePathMissing}

\* the field a validation error names
NamedField(err) ==
    IF err = ErrProjectKeyMissing THEN "ProjectKey"
    ELSE IF err = ErrRepoSlugMissing THEN "RepoSlug" ELSE "FilePath"

FieldIsMissing(c, field) ==
    IF field = "ProjectKey" THEN c.ProjectKey = ""
    ELSE IF field = "RepoSlug" THEN c.RepoSlug = "" ELSE c.FilePath = <<"">>

\* C11: every client operation (GetFileContent, GetTags, GetFiles,
\* GetFilesIterator, OpenRawFile) executed on a command that lacks a mandatory
\* coordinate returns a validation error that names a field the command
\* lacks, and sends no request.
C11_MissingCoordinateFailsBeforeAnyRequest ==
    LacksCoordinate(opCmd) =>
        \A i \in 1..Len(opRuns) :
            /\ opRuns[i].err \in MissingFieldErrors
            /\ FieldIsMissing(opCmd, NamedField(opRuns[i].err))
            /\ opRuns[i].reqs = <<>>
            /\ ~opRuns[i].panic

\* a raw-file command without a file path has been executed and refused
C11_RawFileWithoutPathRefused ==
    /\ opCmd.kind = "OpenRawFile" /\ opCmd.ProjectKey = "P" /\ opCmd.RepoSlug = "R"
    /\ opCmd.FilePath = <<"">>
    /\ Len(opRuns) = 1
    /\ opRuns[1].err = ErrFilePathMissing
    /\ opRuns[1].reqs = <<>>

\* the errors a page fetch fails with
FetchErrors == {ErrTransport, ErrBadStatus, ErrClosed}

\* C12: once a page fetch inside Next has failed, every later Next returns
\* nil, Err() keeps the stored fetch error, and the iterator sends no further
\* request.
C12_ErroredIteratorStaysErrored ==
    [][(iter.made /\ IterErr(iter) \in FetchErrors) =>
          /\ IterErr(iter') = IterErr(iter)
          /\ itReqs' = itReqs
          /\ itRet' # itRet => itRet' = Append(itRet, NilEntry)]_vars

\* Next has been called twice more on an iterator whose second page failed
C12_NextCalledAfterFailure ==
    /\ iter.made /\ IterErr(iter) = ErrTransport
    /\ Len(itReqs) = 2
    /\ Len(itRet) >= 3
    /\ itRet[Len(itRet)] = NilEntry /\ itRet[Len(itRet) - 1] = NilEntry
    /\ itRet[Len(itRet) - 2] = NilEntry

\* the last bbFS call sent a request whose round trip failed
FetchFailed == fsLast.failAt \in 1..Len(fsLast.res.reqs)

\* C13: when the fetch of a page of the parent listing fails during Open,
\* whether the first page or a later one, Open returns that fetch error: it
\* returns neither fs.ErrNotExist nor a node.
C13_OpenReturnsTheFetchError ==
    (fsLast.op = "Open" /\ FetchFailed /\ ~fsLast.res.panic) =>
        /\ fsLast.err = ErrTransport
        /\ ~fsLast.res.node.exists

\* a name that is not a well-formed relative path: empty, rooted, with a
\* trailing slash, or with a "." or ".." element (the name "." itself is
\* well-formed)
IllFormed(name) ==
    \/ name = EmptyPath
    \/ name[1] = ""
    \/ name[Len(name)] = ""
    \/ name # DotPath /\ \E i \in 1..Len(name) : name[i] \in {".", ".."}

\* C19: Open of a name that is not a well-formed relative path fails with
\* the invalid-argument error and sends no request, whatever the root of the
\* handle.
C19_IllFormedNameRefusedWithoutRequest ==
    (fsLast.op = "Open" /\ IllFormed(fsLast.name)) =>
        /\ fsLast.err = ErrOpenInvalid
        /\ fsLast.res.reqs = <<>>
        /\ ~fsLast.res.node.exists
        /\ ~fsLast.res.panic

\* a rooted name was refused by a handle whose root is two levels down
C19_RootedNameRefusedUnderRoot ==
    /\ fsLast.op = "Open" /\ fsLast.name = <<"", "b">>
    /\ Len(fsLast.h.root) = 2
    /\ fsLast.err = ErrOpenInvalid

\* C20: creating a FilesIterator from a listing command and draining it
\* leaves the caller's command as it was: its Start is the Start the caller
\* set before GetFilesIterator.
C20_CallerCommandKeepsItsStart ==
    iter.made => callerCmd.Start \in {c.Start : c \in ItCommands}

\* C18: for every valid GetTagsCommand, with or without OrderBy, building
\* the request completes and yields the URL .../projects/{key}/repos/{slug}/tags
\* that carries orderBy exactly when OrderBy is not empty.
C18_TagsRequestIsBuilt ==
    (bOut.built /\ bCmd.kind = "tags" /\ ValidateTags(bCmd) = Nil) =>
        /\ ~bOut.req.panic
        /\ bOut.req.kind = "tags"
        /\ bOut.req.project = bCmd.ProjectKey /\ bOut.req.repo = bCmd.RepoSlug
        /\ HasParam(bOut.req, "orderBy") <=> bCmd.OrderBy # ""
        /\ HasParam(bOut.req, "orderBy") => ParamValue(bOut.req, "orderBy") = bCmd.OrderBy

\* C17: a command whose built URL is in the client's response cache is
\* executed without a request, from the cached body, and a 2xx body is stored
\* under the URL: the same listing command executed twice in a row on one
\* client, the first time with success, sends one request in all and the
\* second execution returns the listing the first one parsed.
C17_SecondExecutionSendsNoRequest ==
    (opCmd.kind = "GetFiles" /\ Len(opRuns) = 2 /\ opRuns[1].err = Nil) =>
        /\ Len(opRuns[1].reqs) + Len(opRuns[2].reqs) = 1
        /\ opRuns[2].err = Nil
        /\ opRuns[2].files = opRuns[1].files

\* the listing of the node's directory as ReadDir delivers it: every entry
\* of every page, in page order, under the path join(node.path, entry.name)
Listed == [i \in 1..Len(Flatten(fPages)) |-> EntryFile(file, Flatten(fPages)[i])]

IsPrefix(a, b) == Len(a) <= Len(b) /\ a = SubSeq(b, 1, Len(a))

\* every round trip made for the node so far was answered with the page asked for
AllFetched == fPages # <<>> /\ \A i \in 1..Len(fReqs) : fReqs[i].net = "ok"

\* C14: on a directory node whose pages are all fetched with success, the
\* iterator is made once (no page is asked for twice), a ReadDir(n) with
\* n > 0 returns at most n entries, a ReadDir(n) with n <= 0 returns all the
\* entries that remain, and the results of the successive calls, put end to
\* end, are the listing in page order, each entry under join(node.path, name).
C14_ReadDirDeliversTheListing ==
    (fLast.op = "ReadDir" /\ AllFetched) =>
        /\ ~fLast.panic
        /\ IsPrefix(fGot, Listed)
        /\ fLast.n > 0 => Len(fLast.res) <= fLast.n
        /\ fLast.n <= 0 => fGot = Listed
        /\ \A i, j \in 1..Len(fReqs) : fReqs[i] = fReqs[j] => i = j

\* the same, looking away from calls that panicked
C14_UnlessPanic == fLast.panic \/ C14_ReadDirDeliversTheListing

\* C15: once the iterator of the node is exhausted, a ReadDir(n) with n > 0
\* that has no entry left to return reports io.EOF, on the first such call as
\* on every later one; it does not return an empty slice with a nil error.
C15_ExhaustedReadDirReportsEOF ==
    (fLast.op = "ReadDir" /\ fLast.n > 0 /\ AllFetched /\ ~fLast.panic
       /\ fLast.res = <<>>) =>
        fLast.err = EOF

\* C16: on a file node, under any sequence of Read and Close calls: a Read
\* on a node that holds no stream opens one raw content stream, with one
\* request, and stores it; a Read on a node that holds a stream reads from
\* that stream and opens nothing; a Close on a node that holds no stream
\* returns nil and does nothing; no stream is ever closed twice, and after a
\* Close every stream the node opened has been closed exactly once.
C16_StreamOpenedOnceClosedOnce ==
    (file.bfs.exists /\ ~IsDir(file)) =>
        /\ \A s \in 1..Len(streams) : streams[s].closed <= 1
        /\ \A s \in 1..Len(streams) : streams[s].closed = 0 => file.data = s
        /\ (fLast.op = "Read" /\ fLast.before.data # 0) =>
              /\ fLast.reqs = <<>>
              /\ fLast.used = fLast.before.data
              /\ file = fLast.before
        /\ (fLast.op = "Read" /\ fLast.before.data = 0 /\ fLast.failAt = 0) =>
              /\ Len(fLast.reqs) = 1
              /\ fLast.used = Len(streams) /\ file.data = fLast.used
              /\ streams[fLast.used].closed = 0
        /\ (fLast.op = "Close" /\ fLast.before.data = 0) =>
              /\ fLast.err = Nil /\ fLast.used = 0
              /\ file = fLast.before
        /\ fLast.op = "Close" =>
              /\ file.data = 0
              /\ \A s \in 1..Len(streams) : streams[s].closed = 1

\* a file node was read, closed, and closed again
C16_ReadThenClosedTwice ==
    /\ file.bfs.exists /\ ~IsDir(file)
    /\ fLast.op = "Close" /\ fLast.before.data = 0
    /\ Len(streams) = 1 /\ streams[1].closed = 1

\* the held page is read to its end and is not flagged as the last one
AtPageEnd(it) ==
    /\ it.made /\ IterErr(it) = Nil
    /\ it.index >= Len(it.lastResult.Files)
    /\ ~it.lastResult.LastPage

\* C21: a Next called with the held page read to its end and not flagged
\* last sends exactly one request, with start = the nextPageStart of the held
\* page; when that fetch succeeds the page it brought is held, and the call
\* returns an entry at an index below the length of the held page, also when
\* the fetched page holds no entries: no call reads past the page it holds.
C21_NextFetchesOnceAndReadsInsideThePage ==
    [][(AtPageEnd(iter) /\ Len(itRet') = Len(itRet) + 1) =>
          /\ Len(itReqs') = Len(itReqs) + 1
          /\ HasParam(itReqs'[Len(itReqs')], "start")
          /\ ParamValue(itReqs'[Len(itReqs')], "start") = Itoa(iter.lastResult.NextStart)
          /\ ~itPanic'
          /\ IterErr(iter') = Nil =>
                /\ iter'.lastResult.Start = iter.lastResult.NextStart
                /\ iter'.index <= Len(iter'.lastResult.Files)]_vars

\* C22: a Next with the last page held and read to its end makes the
\* iterator exhausted (Err() = io.EOF) and returns nil without a request; on
\* an exhausted iterator every Next returns nil and sends nothing, and a range
\* over Files() yields no entry: the sequence cannot be started again.
C22_ExhaustedIteratorYieldsNothing ==
    [][/\ (iter.made /\ IterErr(iter) = Nil /\ iter.lastResult.LastPage
             /\ iter.index >= Len(iter.lastResult.Files) /\ itRet' # itRet) =>
            /\ IterErr(iter') = EOF
            /\ itRet' = Append(itRet, NilEntry)
            /\ itReqs' = itReqs
       /\ (iter.made /\ IterErr(iter) = EOF) =>
            /\ IterErr(iter') = EOF
            /\ itRet' # itRet => itRet' = Append(itRet, NilEntry)
            /\ itReqs' = itReqs
            /\ itRanges' # itRanges => itRanges' = Append(itRanges, 0)]_vars

\* Files() was ranged over twice: the first range yielded every entry of a
\* listing in two pages, the second one none
C22_RangedTwice ==
    /\ Len(itPages) = 2
    /\ Len(itRanges) = 2
    /\ itRanges[1] = Len(Flatten(itPages)) /\ itRanges[1] >= 2
    /\ itRanges[2] = 0
    /\ IterErr(iter) = EOF

\* the last Open looked its name up in the listing of the parent
OpenLooked ==
    /\ fsLast.op = "Open"
    /\ ValidPath(fsLast.name)
    /\ OpenFullPath(fsLast.h, fsLast.name) # DotPath

\* the name Open looks for
OpenBase == Base(OpenFullPath(fsLast.h, fsLast.name))

\* page k of the served listing holds an entry named as Open's base
PageHoldsBase(k) == \E i \in 1..Len(fsLast.served[k]) : fsLast.served[k][i].Name = OpenBase

\* page k was asked for and came back
PageFetched(k) == k <= Len(fsLast.res.reqs) /\ fsLast.failAt # k

\* C23 as stated: Open lists the parent page by page only until an entry
\* named base is found: once a fetched page holds such an entry no further
\* page is asked for.
C23_OpenStopsAtTheFirstMatch ==
    OpenLooked =>
        \A k \in 1..Len(fsLast.served) :
            (PageFetched(k) /\ PageHoldsBase(k)) => Len(fsLast.res.reqs) <= k

\* C23 as the code has it: a match does not end the listing.  After a fetched
\* page that holds an entry named base and is not the last page, Open asks
\* for the next page, and so on until the listing is exhausted or a fetch
\* fails.
C23_OpenListsOnAfterAMatch ==
    OpenLooked =>
        \A k \in 1..(Len(fsLast.served) - 1) :
            (PageFetched(k) /\ PageHoldsBase(k)) => Len(fsLast.res.reqs) >= k + 1

\* Open found its name on the first of two pages and fetched the second
C23_SecondPageFetchedAfterMatch ==
    /\ OpenLooked
    /\ Len(fsLast.served) = 2 /\ PageHoldsBase(1)
    /\ fsLast.failAt = 0
    /\ Len(fsLast.res.reqs) = 2
    /\ fsLast.res.node.exists

\* the entries of the served listing named as Open's base, in listing order
Matches == SelectSeq(Flatten(fsLast.served), LAMBDA e : e.Name = OpenBase)

\* C24: when Open returns a node for a name that the parent listing, fetched
\* in full, holds once or several times (in one page or across pages), the
\* node has the kind and the size of the last entry of that name in listing
\* order; with one such entry it has the kind of that entry.
C24_LastMatchingEntryWins ==
    (OpenLooked /\ fsLast.failAt = 0 /\ fsLast.res.err = Nil /\ fsLast.res.node.exists) =>
        /\ Matches # <<>>
        /\ fsLast.res.node.name = OpenBase
        /\ fsLast.res.node.mode = isModeDir(Matches[Len(Matches)].Type)
        /\ fsLast.res.node.size = Matches[Len(Matches)].Size

\* Open returned a directory for a name listed as a file on the first page
\* and as a directory on the second
C24_DirectoryAfterFileAcrossPages ==
    /\ OpenLooked /\ fsLast.failAt = 0
    /\ Len(fsLast.served) = 2
    /\ fsLast.served[1] = <<FileEntry("b")>> /\ fsLast.served[2] = <<DirEntry("b")>>
    /\ fsLast.res.node.exists /\ IsDir(fsLast.res.node)
    /\ fsLast.res.node.size = 0

\* the path a request addresses, and the revision it carries ("" for none)
Addressed(req) == req.rest
Revision(req) == IF HasParam(req, "at") THEN ParamValue(req, "at") ELSE ""

\* a path as a request carries it: the root "." is sent as ""
Sent(p) == IF p = DotPath THEN EmptyPath ELSE p

\* C25: every request sent through a handle addresses a path made by joining
\* the root of the handle with the name the caller gave, and carries the
\* revision of the handle: the parent listing of Open (and of the Open inside
\* Sub) addresses the parent of join(root, name), the listing of ReadDir and
\* the raw-file fetch of Read address join(root, name) itself.  The handle is
\* any handle of the program, made by NewFS or by one or several Sub calls.
C25_RequestsAddressRootJoinedWithName ==
    /\ fsLast.op \in {"Open", "Sub"} =>
         \A i \in 1..Len(fsLast.res.reqs) :
            /\ Addressed(fsLast.res.reqs[i]) = Sent(Dir(Join(fsLast.h.root, fsLast.name)))
            /\ Revision(fsLast.res.reqs[i]) = fsLast.h.at
    /\ fsLast.op = "Kept" =>
         \A i \in 1..Len(fReqs) :
            /\ Addressed(fReqs[i].req) =
                  IF IsDir(file) THEN Sent(Join(fsLast.h.root, fsLast.name))
                  ELSE Join(fsLast.h.root, fsLast.name)
            /\ Revision(fReqs[i].req) = fsLast.h.at

\* a directory opened on a handle two Sub calls below the root was listed at
\* a revision
C25_ListedUnderNestedSub ==
    /\ fsLast.op = "Kept"
    /\ fsLast.h.root = <<"b", "b">> /\ fsLast.h.at = "v1"
    /\ fsLast.name = <<"b">>
    /\ fLast.op = "ReadDir" /\ Len(fReqs) >= 2

(***************************************************************************)
(* The specifications: each drives one part of the program and leaves the  *)
(* variables of the other parts at rest.                                   *)
(***************************************************************************)
IterSpecInit == ItInit /\ FSIdle /\ CacheIdle /\ BuildIdle /\ SecIdle /\ OpIdle /\ FileIdle
IterSpec == IterSpecInit /\ [][ItNext]_vars

FSSpecInit == FSInit /\ ItIdle /\ CacheIdle /\ BuildIdle /\ SecIdle /\ OpIdle /\ FileIdle
FSSpec == FSSpecInit /\ [][FSNext]_vars

CacheSpecInit == CacheInit /\ ItIdle /\ FSIdle /\ BuildIdle /\ SecIdle /\ OpIdle /\ FileIdle
CacheSpec == CacheSpecInit /\ [][CacheNext]_vars

BuildSpecInit == BuildInit /\ ItIdle /\ FSIdle /\ CacheIdle /\ SecIdle /\ OpIdle /\ FileIdle
BuildSpec == BuildSpecInit /\ [][BuildNext]_vars

\* the cache under a fair scheduler.  A thread inside a call has one step
\* to take and takes it: at once when nothing stands in its way, and in the
\* end when it waits for the writers' mutex w (which in starvation mode
\* serves every waiter) or sleeps on a semaphore (where a later arrival may
\* take the wake-up meant for it).
\* What the lock does is the same for every key and body, and for entries
\* that expire: the threads work on one key with one body.
ThreadStep(t) ==
    \/ RLock(t) \/ RLockWake(t) \/ GetInner(t) \/ SetInner(t)
    \/ RUnlock(t) \/ rUnlockSlow(t) \/ rUnlockRelease(t)
    \/ Lock(t) \/ LockAnnounce(t) \/ LockWait(t) \/ LockWake(t)
    \/ ClearInner(t) \/ Unlock(t) \/ UnlockW(t)

FairCacheNext ==
    \E t \in Threads :
        \/ CallGet(t, "url1")
        \/ CallSet(t, "url1", "body1")
        \/ CallClear(t)
        \/ ThreadStep(t)

FairCacheSpec ==
    /\ CacheSpecInit
    /\ [][FairCacheNext]_vars
    /\ \A t \in Threads : SF_vars(ThreadStep(t))

OpSpecInit == OpInit /\ ItIdle /\ FSIdle /\ CacheIdle /\ BuildIdle /\ SecIdle /\ FileIdle
OpSpec == OpSpecInit /\ [][OpNext]_vars

FileSpecInit ==
    FileInit /\ ItIdle /\ FSIdle /\ CacheIdle /\ BuildIdle /\ SecIdle /\ OpIdle
FileSpec == FileSpecInit /\ [][FileNext]_vars

HandleSpecInit ==
    FSInit /\ ItIdle /\ CacheIdle /\ BuildIdle /\ SecIdle /\ OpIdle /\ FileIdle
HandleSpec == HandleSpecInit /\ [][HandleNext]_vars

SecretSpecInit == SecInit /\ ItIdle /\ FSIdle /\ CacheIdle /\ BuildIdle /\ OpIdle /\ FileIdle
SecretSpec == SecretSpecInit /\ [][SecNext]_vars

\* a ReadDir call has just returned
ReadDirReturned == fCalls' # fCalls /\ fLast'.op = "ReadDir"

\* the iterator of the node holds the error of a failed page fetch
IteratorFailed(f) == f.dirIter.made /\ IterErr(f.dirIter) \in FetchErrors

\* what C26 says of one ReadDir call, for the fetch errors in errs: the call
\* during which the iterator fails returns the iterator's error; a call made
\* after that returns the same error, no entries, and sends nothing
FailureIsKept(errs) ==
    ReadDirReturned =>
      /\ (~IteratorFailed(file) /\ IteratorFailed(file') /\ IterErr(file'.dirIter) \in errs) =>
            fLast'.err = IterErr(file'.dirIter)
      /\ (IteratorFailed(file) /\ IterErr(file.dirIter) \in errs) =>
            /\ fLast'.err = IterErr(file.dirIter)
            /\ fLast'.res = <<>>
            /\ fLast'.reqs = <<>>
            /\ fGot' = fGot
            /\ fReqs' = fReqs

\* C26: if the iterator of the node fails during a ReadDir call, the call
\* returns the iterator's error, and every later ReadDir call on the node
\* returns the same error, with no entries (so nothing fetched before the
\* failure is delivered again) and without a further request
C26_FailedReadDirKeepsFailing == [][FailureIsKept(FetchErrors)]_vars

\* the same for every failure that does not wrap io.EOF
C26_UnlessClosedConnection == [][FailureIsKept(FetchErrors \ {ErrClosed})]_vars

\* a ReadDir call that follows one whose second page fetch failed
C26_ReadDirAfterFailure ==
    /\ fLast.op = "ReadDir"
    /\ IteratorFailed(fLast.before)
    /\ fLast.before.lastErr = ErrTransport
    /\ fGot # <<>>

====
